---- MODULE Spec2Model ----
(***************************************************************************)
(* Fixed-capacity containers of sak_rs: InplaceVec<T, N> and               *)
(* InplaceDeque<T, N> (src/src/collections/inplace).                       *)
(*                                                                         *)
(* A buffer is modelled as raw memory: a function from slot index to the   *)
(* bits the slot holds.  0 stands for memory that was never written, any   *)
(* other number identifies one value of type T.  Reading a value out of a  *)
(* slot (assume_init_read, ptr::read) and copying slots (ptr::copy) leave  *)
(* the source bits in place, exactly as the machine does; which slots are  *)
(* live is decided by len (and head) alone.  Ghost counters record how     *)
(* often each value was handed back to the caller and how often it was     *)
(* destroyed (drop_in_place), so that leaks, double drops and duplicated   *)
(* values are observable.  T is a type with drop glue and a non-zero size. *)
(***************************************************************************)
EXTENDS Integers, Sequences, FiniteSets, TLC

\* ---------------------------------------------------------------- bounds
VecCap == 2        \* N of the InplaceVec<T, N> under test
VecVals == 3       \* number of distinct values of T the vector's caller creates
DequeCap == 3      \* largest N of the InplaceDeque<T, N> driven through every operation
DequeVals == 3     \* number of distinct values that deque's caller creates
RingCap == 6       \* largest N of the InplaceDeque<T, N> used as a queue
RingVals == 9      \* number of distinct values the queue's caller creates
DrainCap == 5      \* N of the InplaceDeque<T, N> that is filled and drained
DrainVals == 5     \* number of distinct values the drained deque's caller creates
HeapCap == 5       \* N of the InplaceHeap<T, N> under test
HeapVals == 2      \* number of distinct keys in that heap
UnwindCap == 4     \* N of the containers that are collected and then hit by a panic
UnwindVals == 5    \* length of the longest sequence collected into them
EqCap == 3         \* N of the two deques that are compared
EqVals == 2        \* values their elements take
IterCap == 4       \* largest N of the containers that are iterated
OnceVals == 3      \* values the one-time channel may carry
OnceSpurious == 2  \* spurious returns of thread::park in one run
SwapVals == 2      \* values the sender of the swap channel sends before it is dropped
WrapCap == 5       \* largest N of the buffers wrap_copy is applied to
RotateCap == 5     \* largest N of the deques that are rotated
AppendCap == 4     \* N of the small heaps and of the deques that are appended to each other
BigHeapCap == 64   \* N of the large ones: rebuild_tail rebuilds from 64 elements on
RetainCap == 5     \* N of the heaps that retain is called on
RetainVals == 3    \* number of distinct keys in them
SearchCap == 4     \* largest N of the sorted deques that are searched
SearchVals == 3    \* number of distinct keys in them
QueueCap == 4      \* N of the InplaceVec<T, N> used as a queue
QueueVals == 6     \* number of values pushed into it
PoolWorkers == 2   \* largest number of workers of a ThreadPool
PoolTasks == 3     \* number of tasks added to it
UsizeBits == 16    \* bits of usize the model keeps (the target's usize has 64)

Uninit == 0
Vals == 1..VecVals

Min(a, b) == IF a < b THEN a ELSE b

VARIABLES
    \* InplaceVec under test
    vbuf,        \* buf: slot -> bits
    vlen,        \* len
    vstate,      \* "live", "dropped" (Drop has run) or "aborted" (the process died)
    vnext,       \* the next value the caller creates
    vop,         \* the name of the last call
    vret,        \* what the last call returned
    vout         \* value -> how often it left the vector: handed back to the
                 \* caller or destroyed (2 stands for "more than once")

VARIABLES
    \* InplaceDeque under test
    dcap,        \* N
    dbuf,        \* buf: slot -> bits
    dhead,       \* head
    dlen,        \* len
    dok,         \* no raw copy left the buffer, no internal assertion failed
    dnext,       \* the next value the caller creates
    dop,         \* the name of the last call
    dret,        \* what the last call returned
    dout,        \* value -> how often it left the deque (returned or destroyed)
    dleaked,     \* the values lost to mem::forget of a Drain
    drain,       \* the outstanding Drain, or NoDrain
    dorig,       \* while a Drain is out and until the next call: the sequence when
                 \* drain() was called, the range drained, head at that time
    dyield,      \* the values that Drain yielded: <<by next, by next_back>>
    dmode        \* how the caller uses the deque

VARIABLES
    \* InplaceHeap under test
    hcap,        \* N
    hbuf,        \* data.buf: slot -> key
    hlen,        \* data.len
    hbuild,      \* "debug": debug assertions are compiled in; "release": they are not
    hguard,      \* the outstanding PeekMut, or NoGuard
    hpeeked,     \* the root when that PeekMut was obtained
    hop,         \* the name of the last call
    hret         \* what the last call returned

VARIABLES
    \* two InplaceDeques compared and hashed
    eqself,      \* self
    eqother,     \* other
    eqret        \* what the last call returned

VARIABLES
    \* an iterator under test
    it,          \* IntoIter of a vector, IntoIter of a deque, or IterMut of a deque
    itorig,      \* the sequence of the container when the iterator was made
    itfront,     \* what next() yielded so far, in order
    itback,      \* what next_back() yielded so far, in order
    itret,       \* what the last call returned
    itfused      \* some call has returned None

VARIABLES
    \* a spsc::once channel, its sender thread and its receiver thread
    once_lock,     \* inner.lock: "free", or the thread that holds it
    once_value,    \* inner.value: <<"None">> or <<"Some", v>>
    once_thread,   \* inner.thread: <<"None">> or <<"Some", thread>>
    once_state,    \* inner.state, the set of its bits
    once_freed,    \* the OnceInner has been released
    once_spc,      \* where the sender is in send(v)
    once_sent,     \* v
    once_local,    \* the sender's local `thread`
    once_rpc,      \* where the receiver is in recv()
    once_token,    \* the park token of the receiver thread
    once_ret,      \* what recv() returned, <<"None">> while it has not
    once_parks     \* <<times park() returned on a token, times it returned spuriously>>

VARIABLES
    \* a spsc::swap channel, its sender thread and its receiver thread
    swap_count,    \* Arc::strong_count(inner)
    swap_inner,    \* inner.buf, the shared Vec
    swap_lock,     \* the Mutex around it: "free", or the thread that holds it
    swap_local,    \* the receiver's own buf
    swap_spc,      \* where the sender is: "idle", in send(v), or "dropped"
    swap_next,     \* the next value the sender sends
    swap_rpc,      \* where the receiver is: "idle" or in a call
    swap_call,     \* the receiver's current or last call
    swap_gone,     \* the sender had been dropped when that call began
    swap_ret       \* what that call returned

VARIABLES
    \* two containers of one type, a and b in a.append(&mut b)
    app_a,       \* a
    app_b,       \* b
    app_op,      \* "new", or the last call
    app_ret      \* what it returned

VARIABLES
    \* a sorted deque and a search in it
    sorted,      \* the deque
    search_op,   \* <<"new">>, or the last call with its argument
    search_ret   \* what it returned

VARIABLES
    \* a ThreadPool, the thread that owns it and its worker threads
    pool_workers,  \* the worker threads, 1..k
    pool_queue,    \* the unbounded channel of Task messages, oldest first
    pool_pc,       \* where the owner is: "open", in join_by_ref, or "joined"
    pool_i,        \* how far the loop join_by_ref is in has come
    pool_next,     \* the next task the owner adds
    worker_pc,     \* per worker: <<"recv">>, <<"task", t>> or <<"exited">>
    pool_runs      \* per task: how many times it has been run to its end

vvars == <<vbuf, vlen, vstate, vnext, vop, vret, vout>>
dvars == <<dcap, dbuf, dhead, dlen, dok, dnext, dop, dret, dout, dleaked, drain, dorig,
           dyield, dmode>>
hvars == <<hcap, hbuf, hlen, hbuild, hguard, hpeeked, hop, hret>>
evars == <<eqself, eqother, eqret>>
ivars == <<it, itorig, itfront, itback, itret, itfused>>
ovars == <<once_lock, once_value, once_thread, once_state, once_freed, once_spc, once_sent,
           once_local, once_rpc, once_token, once_ret, once_parks>>
svars == <<swap_count, swap_inner, swap_lock, swap_local, swap_spc, swap_next, swap_rpc,
           swap_call, swap_gone, swap_ret>>
avars == <<app_a, app_b, app_op, app_ret>>
bvars == <<sorted, search_op, search_ret>>
pvars == <<pool_workers, pool_queue, pool_pc, pool_i, pool_next, worker_pc, pool_runs>>
xvars == <<evars, ivars, ovars, svars, avars, bvars, pvars>>
vars == <<vvars, dvars, hvars, xvars>>

\* ------------------------------------------------------- memory primitives
\* The slots [a, b) of buf as a sequence.
Slice(buf, a, b) == [i \in 1..(b - a) |-> buf[a + i - 1]]

\* ptr::copy (memmove): n slots from src to dst, overlap allowed.
ptr_copy(buf, src, dst, n) ==
    [i \in DOMAIN buf |-> IF dst <= i /\ i < dst + n THEN buf[src + (i - dst)] ELSE buf[i]]

\* A sequence of slot contents leaves the container (ptr::drop_in_place, or a
\* value handed to the caller): bump the counter of every value met, capped at 2
\* ("more than once").  Never-written slots hold no value.
Occ(s, id) == Cardinality({i \in DOMAIN s : s[i] = id})
Bump(cnt, s) == [id \in DOMAIN cnt |-> Min(cnt[id] + Occ(s, id), 2)]

\* ------------------------------------------------------------- InplaceVec
Vec(buf, len) == [buf |-> buf, len |-> len]
\* What an operation did: the vector afterwards, the value returned, the slots'
\* contents it destroyed (in order), whether it gave a value back to the caller.
Outcome(v, ret, drops) == [v |-> v, ret |-> ret, drops |-> drops, abort |-> FALSE]

vec_new == Vec([i \in 0..(VecCap - 1) |-> Uninit], 0)

vec_capacity == VecCap

vec_is_full_off(v) == v.len + 1 = vec_capacity
vec_is_full(v) == v.len = vec_capacity

vec_is_empty(v) == v.len = 0

vec_as_slice(v) == Slice(v.buf, 0, v.len)

vec_push(v, value) ==
    IF vec_is_full(v)
    THEN Outcome(v, <<"Err", value>>, <<>>)
    ELSE Outcome(Vec([v.buf EXCEPT ![v.len] = value], v.len + 1), <<"Ok">>, <<>>)

vec_pop(v) ==
    IF vec_is_empty(v)
    THEN Outcome(v, <<"None">>, <<>>)
    ELSE Outcome(Vec(v.buf, v.len - 1), <<"Some", v.buf[v.len - 1]>>, <<>>)

vec_swap_remove(v, index) ==
    IF index >= v.len
    THEN Outcome(v, <<"Err">>, <<>>)
    ELSE LET value == v.buf[index]
             last_value == v.buf[v.len - 1]
         IN Outcome(Vec([v.buf EXCEPT ![index] = last_value], v.len - 1),
                    <<"Ok", value>>, <<>>)

\* The error is a message only: element is not handed back, it is destroyed when
\* insert returns.
vec_insert(v, index, element) ==
    IF vec_is_full(v) THEN Outcome(v, <<"Err">>, <<element>>)
    ELSE IF index > v.len THEN Outcome(v, <<"Err">>, <<element>>)
    ELSE LET shifted == IF index < v.len
                        THEN ptr_copy(v.buf, index, index + 1, v.len - index)
                        ELSE v.buf
         IN Outcome(Vec([shifted EXCEPT ![index] = element], v.len + 1), <<"Ok">>, <<>>)

\* len is read but never written back: the code has no `self.len -= 1`.
vec_remove(v, index) ==
    IF index >= v.len
    THEN Outcome(v, <<"Err">>, <<>>)
    ELSE LET value == v.buf[index]
         IN Outcome(Vec(ptr_copy(v.buf, index + 1, index, v.len - index - 1), v.len),
                    <<"Ok", value>>, <<>>)

\* get_unchecked_mut(len..len_to_drop): the range ends at self.len - len, not at
\* self.len.  With len <= len_to_drop the range lies inside the buffer and the
\* slots [len, self.len - len) are destroyed.  With len > len_to_drop the range
\* starts after its end, which is undefined behaviour: a build with the library's
\* precondition checks aborts before len is written; a build without them forms a
\* slice of wrapped length and destroys some run of slots starting at len.
vec_truncate(v, len) ==
    IF len > v.len
    THEN {Outcome(v, <<"Unit">>, <<>>)}
    ELSE LET len_to_drop == v.len - len
         IN IF len <= len_to_drop
            THEN {Outcome(Vec(v.buf, len), <<"Unit">>, Slice(v.buf, len, len_to_drop))}
            ELSE {[Outcome(v, <<"Unit">>, <<>>) EXCEPT !.abort = TRUE]}
                 \cup {Outcome(Vec(v.buf, len), <<"Unit">>, Slice(v.buf, len, len + k)) :
                          k \in 0..(vec_capacity - len)}

vec_clear(v) == Outcome(Vec(v.buf, 0), <<"Unit">>, vec_as_slice(v))

\* retain_mut: g is the BackshiftOnDrop guard plus the values destroyed so far;
\* f is the set of values the predicate accepts.  The predicate panics on the
\* value g.trap and the teardown of the value g.bomb panics (Uninit: on none);
\* g.panicked tells which of the two has unwound the loop, if any.
RECURSIVE process_loop(_, _, _, _)
process_loop(original_len, f, g, DELETED) ==
    IF g.panicked # "no" \/ g.processed_len = original_len THEN g
    ELSE LET cur == g.buf[g.processed_len]
         IN IF cur = g.trap THEN [g EXCEPT !.panicked = "predicate"]
            ELSE IF cur \notin f
            THEN LET g1 == [g EXCEPT !.processed_len = @ + 1, !.deleted_cnt = @ + 1,
                                     !.drops = Append(@, cur)]
                 IN IF cur = g.bomb THEN [g1 EXCEPT !.panicked = "teardown"]
                    ELSE IF DELETED THEN process_loop(original_len, f, g1, DELETED) ELSE g1
            ELSE LET g1 == IF DELETED
                           THEN [g EXCEPT !.buf = ptr_copy(g.buf, g.processed_len,
                                                    g.processed_len - g.deleted_cnt, 1)]
                           ELSE g
                 IN process_loop(original_len, f,
                                 [g1 EXCEPT !.processed_len = @ + 1], DELETED)

BackshiftOnDrop_drop_no_shift(g, original_len) ==
    Vec(g.buf, original_len - g.deleted_cnt)
BackshiftOnDrop_drop(g, original_len) ==
    LET buf == IF g.deleted_cnt > 0
               THEN ptr_copy(g.buf, g.processed_len, g.processed_len - g.deleted_cnt,
                             original_len - g.processed_len)
               ELSE g.buf
    IN Vec(buf, original_len - g.deleted_cnt)

\* retain_mut with a predicate that panics on trap and a teardown that panics on
\* bomb: the guard is dropped at the end or while the panic unwinds.
vec_retain_mut_unwinding(v, f, trap, bomb) ==
    LET original_len == v.len
    IN IF original_len = 0 THEN Outcome(v, <<"Unit">>, <<>>)
       ELSE LET g0 == [buf |-> v.buf, processed_len |-> 0, deleted_cnt |-> 0,
                       drops |-> <<>>, trap |-> trap, bomb |-> bomb, panicked |-> "no"]
                g1 == process_loop(original_len, f, g0, FALSE)
                g2 == process_loop(original_len, f, g1, TRUE)
            IN Outcome(BackshiftOnDrop_drop(g2, original_len),
                       IF g2.panicked = "no" THEN <<"Unit">>
                       ELSE <<"Panic", g2.panicked, g2.processed_len>>,
                       g2.drops)

vec_retain_mut(v, f) == vec_retain_mut_unwinding(v, f, Uninit, Uninit)

\* The caller's same_bucket closure: values are bucketed by value \div k.
same_bucket(a, b, k) == (a \div k) = (b \div k)

RECURSIVE first_duplicate(_, _, _, _)
first_duplicate(buf, idx, len, k) ==
    IF idx = len THEN idx
    ELSE IF same_bucket(buf[idx], buf[idx - 1], k) THEN idx
    ELSE first_duplicate(buf, idx + 1, len, k)

\* gap is the FillGapOnDrop guard plus the values destroyed so far; the teardown
\* of the value gap.bomb panics, and gap.panicked tells whether it has.
RECURSIVE dedup_loop(_, _, _)
dedup_loop(gap, len, k) ==
    IF gap.panicked \/ ~(gap.read < len) THEN gap
    ELSE IF same_bucket(gap.buf[gap.read], gap.buf[gap.write - 1], k)
         THEN dedup_loop([gap EXCEPT !.read = @ + 1,
                                     !.drops = Append(@, gap.buf[gap.read]),
                                     !.panicked = (gap.buf[gap.read] = gap.bomb)], len, k)
         ELSE dedup_loop([gap EXCEPT !.buf = ptr_copy(gap.buf, gap.read, gap.write, 1),
                                     !.write = @ + 1, !.read = @ + 1], len, k)

\* Drop for FillGapOnDrop, run when a panic unwinds dedup_by: vec[read..] is
\* moved down to write and len shrinks by read - write.
FillGapOnDrop_drop_keep_len(gap, len) ==
    Vec(ptr_copy(gap.buf, gap.read, gap.write, len - gap.read), len)
FillGapOnDrop_drop(gap, len) ==
    LET items_left == len - gap.read
        dropped == gap.read - gap.write
    IN Vec(ptr_copy(gap.buf, gap.read, gap.write, items_left), len - dropped)

\* dedup_by with a teardown that panics on bomb.
vec_dedup_by_unwinding(v, k, bomb) ==
    LET len == v.len
    IN IF len <= 1 THEN Outcome(v, <<"Unit">>, <<>>)
       ELSE LET first_duplicate_idx == first_duplicate(v.buf, 1, len, k)
            IN IF first_duplicate_idx = len THEN Outcome(v, <<"Unit">>, <<>>)
               ELSE LET gap0 == [buf |-> v.buf, read |-> first_duplicate_idx + 1,
                                 write |-> first_duplicate_idx,
                                 drops |-> <<v.buf[first_duplicate_idx]>>,
                                 bomb |-> bomb,
                                 panicked |-> (v.buf[first_duplicate_idx] = bomb)]
                        gap == dedup_loop(gap0, len, k)
                    IN IF gap.panicked
                       THEN Outcome(FillGapOnDrop_drop(gap, len),
                                    <<"Panic", "teardown", gap.read>>, gap.drops)
                       ELSE Outcome(Vec(gap.buf, gap.write), <<"Unit">>, gap.drops)

vec_dedup_by(v, k) == vec_dedup_by_unwinding(v, k, Uninit)

\* buf.iter_mut().zip(iter).map(|(dst, src)| dst.write(src)).count(): Zip asks
\* the buffer for its next slot first and the source only when there is one.
\* rest is what stays in the source.
RECURSIVE zip_write_source_first(_, _, _)
zip_write_source_first(buf, count, items) ==
    IF items = <<>> THEN [buf |-> buf, count |-> count, rest |-> items]
    ELSE IF count = Cardinality(DOMAIN buf)
    THEN [buf |-> buf, count |-> count, rest |-> Tail(items)]
    ELSE zip_write_source_first([buf EXCEPT ![count] = Head(items)], count + 1, Tail(items))
RECURSIVE zip_write(_, _, _)
zip_write(buf, count, items) ==
    IF count = Cardinality(DOMAIN buf) THEN [buf |-> buf, count |-> count, rest |-> items]
    ELSE IF items = <<>> THEN [buf |-> buf, count |-> count, rest |-> items]
    ELSE zip_write([buf EXCEPT ![count] = Head(items)], count + 1, Tail(items))

\* The number of elements a FromIterator of capacity cap takes from items.
source_taken(cap, items) ==
    Len(items) - Len(zip_write([i \in 0..(cap - 1) |-> Uninit], 0, items).rest)

\* FromIterator for InplaceVec.
vec_from_iter(items) ==
    LET z == zip_write(vec_new.buf, 0, items)
    IN Vec(z.buf, z.count)

\* append returns the pair of vectors as well.
vec_append(v, other) ==
    IF other.len > vec_capacity - v.len
    THEN [v |-> v, other |-> other, ret |-> <<"Err">>]
    ELSE LET count == other.len
         IN [v |-> Vec([i \in DOMAIN v.buf |->
                           IF v.len <= i /\ i < v.len + count
                           THEN other.buf[i - v.len] ELSE v.buf[i]],
                       v.len + count),
             other |-> Vec(other.buf, 0),
             ret |-> <<"Ok">>]

\* Drop for InplaceVec: the values destroyed at teardown.
vec_drop(v) == Slice(v.buf, 0, v.len)

\* ------------------------------------------------------ InplaceVec: actions
TheVec == Vec(vbuf, vlen)

\* The value a call hands back to its caller, if any.  A value push rejects goes
\* back to the caller untouched and was never stored: it is not counted.
Given(ret) == IF ret[1] \in {"Some", "Ok"} /\ Len(ret) = 2 THEN <<ret[2]>> ELSE <<>>

\* The deque is not used while the vector is under test.
VecIdle ==
    /\ vbuf = <<>> /\ vlen = 0 /\ vstate = "none" /\ vnext = 1 /\ vop = "none"
    /\ vret = <<"Unit">> /\ vout = <<>>

HeapIdle ==
    /\ hcap = 0 /\ hbuf = <<>> /\ hlen = 0 /\ hbuild = "none" /\ hguard = <<>>
    /\ hpeeked = 0 /\ hop = "none" /\ hret = <<"Unit">>

DequeIdle ==
    /\ dcap = 0 /\ dbuf = <<>> /\ dhead = 0 /\ dlen = 0 /\ dok = TRUE /\ dnext = 1
    /\ dop = "none" /\ dret = <<"Unit">> /\ dout = <<>> /\ dleaked = {}
    /\ drain = <<>> /\ dorig = <<>> /\ dyield = <<>> /\ dmode = "none"

EqIdle == eqself = <<>> /\ eqother = <<>> /\ eqret = <<"Unit">>

IterIdle ==
    /\ it = <<>> /\ itorig = <<>> /\ itfront = <<>> /\ itback = <<>>
    /\ itret = <<"Unit">> /\ itfused = FALSE

OnceIdle ==
    /\ once_lock = "free" /\ once_value = <<"None">> /\ once_thread = <<"None">>
    /\ once_state = {} /\ once_freed = FALSE /\ once_spc = "none" /\ once_sent = 0
    /\ once_local = <<"None">> /\ once_rpc = "none" /\ once_token = FALSE
    /\ once_ret = <<"None">> /\ once_parks = <<0, 0>>

SwapIdle ==
    /\ swap_count = 0 /\ swap_inner = <<>> /\ swap_lock = "free" /\ swap_local = <<>>
    /\ swap_spc = "none" /\ swap_next = 1 /\ swap_rpc = "none" /\ swap_call = "none"
    /\ swap_gone = FALSE /\ swap_ret = <<"Unit">>

AppendIdle == app_a = <<>> /\ app_b = <<>> /\ app_op = "none" /\ app_ret = <<"Unit">>

SearchIdle == sorted = <<>> /\ search_op = <<"none">> /\ search_ret = <<"Unit">>

PoolIdle ==
    /\ pool_workers = {} /\ pool_queue = <<>> /\ pool_pc = "none" /\ pool_i = 0
    /\ pool_next = 1 /\ worker_pc = <<>> /\ pool_runs = <<>>

RestIdle == EqIdle /\ IterIdle /\ OnceIdle /\ SwapIdle /\ AppendIdle /\ SearchIdle /\ PoolIdle

VecInit ==
    /\ RestIdle
    /\ DequeIdle
    /\ HeapIdle
    /\ vbuf = vec_new.buf
    /\ vlen = vec_new.len
    /\ vstate = "live"
    /\ vnext = 1
    /\ vop = "new"
    /\ vret = <<"Unit">>
    /\ vout = [id \in Vals |-> 0]

\* The call `call` finished with outcome o after the caller created `made` values.
VecDone(call, o, made) ==
    /\ vbuf' = o.v.buf
    /\ vlen' = o.v.len
    /\ vstate' = IF o.abort THEN "aborted" ELSE "live"
    /\ vnext' = vnext + made
    /\ vop' = call
    /\ vret' = o.ret
    /\ vout' = Bump(vout, Given(o.ret) \o o.drops)
    /\ UNCHANGED <<dvars, hvars, xvars>>

VPush ==
    /\ vstate = "live" /\ vnext <= VecVals
    /\ LET o == vec_push(TheVec, vnext)
       IN VecDone("push", o, IF o.ret[1] = "Ok" THEN 1 ELSE 0)

VPop ==
    /\ vstate = "live"
    /\ VecDone("pop", vec_pop(TheVec), 0)

VSwapRemove ==
    /\ vstate = "live"
    /\ \E index \in 0..vec_capacity :
          VecDone("swap_remove", vec_swap_remove(TheVec, index), 0)

VInsert ==
    /\ vstate = "live" /\ vnext <= VecVals
    /\ \E index \in 0..vec_capacity :
          VecDone("insert", vec_insert(TheVec, index, vnext), 1)

VRemoveAt(index) ==
    /\ vstate = "live"
    /\ VecDone("remove", vec_remove(TheVec, index), 0)

VRemove == \E index \in 0..vec_capacity : VRemoveAt(index)

VTruncateTo(len) ==
    /\ vstate = "live"
    /\ \E o \in vec_truncate(TheVec, len) : VecDone("truncate", o, 0)

VTruncate == \E len \in 0..(vec_capacity + 1) : VTruncateTo(len)

VClear ==
    /\ vstate = "live"
    /\ VecDone("clear", vec_clear(TheVec), 0)

\* The predicates tried: keep the even values, the odd ones, all, none.
RetainSets == {{id \in Vals : id % 2 = 0}, {id \in Vals : id % 2 = 1}, Vals, {}}

VRetain ==
    /\ vstate = "live"
    /\ \E f \in RetainSets :
          VecDone("retain", vec_retain_mut(TheVec, f), 0)

\* Bucket widths tried: every value its own bucket, pairs, one bucket for all.
BucketWidths == {1, 2, VecVals + 1}

VDedupBy ==
    /\ vstate = "live"
    /\ \E k \in BucketWidths :
          VecDone("dedup_by", vec_dedup_by(TheVec, k), 0)

\* other is collected from count fresh values, appended, and dropped afterwards.
VAppend ==
    /\ vstate = "live"
    /\ \E count \in 0..vec_capacity :
          /\ vnext + count - 1 <= VecVals
          /\ LET other == vec_from_iter([i \in 1..count |-> vnext + i - 1])
                 r == vec_append(TheVec, other)
             IN VecDone("append", Outcome(r.v, r.ret, vec_drop(r.other)), count)

VDrop ==
    /\ vstate = "live"
    /\ vstate' = "dropped"
    /\ vop' = "drop"
    /\ vret' = <<"Unit">>
    /\ vout' = Bump(vout, vec_drop(TheVec))
    /\ UNCHANGED <<vbuf, vlen, vnext>>
    /\ UNCHANGED <<dvars, hvars, xvars>>

VecNext ==
    \/ VPush \/ VPop \/ VSwapRemove \/ VInsert \/ VRemove \/ VTruncate \/ VClear
    \/ VRetain \/ VDedupBy \/ VAppend \/ VDrop

SpecVec == VecInit /\ [][VecNext]_vars

\* ------------------------------------------------- InplaceVec: properties
\* The sequence s without its element at (0-based) position i.
Without(s, i) == SubSeq(s, 1, i) \o SubSeq(s, i + 2, Len(s))

\* C1: push(v) on a full vector returns Err(v) with v itself and changes neither
\* len nor any element; on a vector that is not full it returns Ok(()), len grows
\* by exactly one, v is the element at index old len and the elements before it
\* are unchanged.
C1_PushContract ==
    [][VPush =>
         IF vlen = vec_capacity
         THEN vret' = <<"Err", vnext>> /\ vlen' = vlen /\ vbuf' = vbuf
         ELSE /\ vret' = <<"Ok">>
              /\ vlen' = vlen + 1
              /\ vbuf'[vlen] = vnext
              /\ \A i \in 0..(vlen - 1) : vbuf'[i] = vbuf[i]]_vars

\* A full vector has just rejected a push and handed the value back.
C1_Witness == vop = "push" /\ vret = <<"Err", vnext>> /\ vlen = vec_capacity

\* C2: remove(i) with i < len returns the element at index i and leaves the
\* previous sequence with index i deleted (len one less, the others in order);
\* with i >= len it returns Err and leaves the vector unchanged.
C2_RemoveContract ==
    [][\A index \in 0..vec_capacity :
         VRemoveAt(index) =>
           IF index < vlen
           THEN /\ vret' = <<"Ok", vbuf[index]>>
                /\ vlen' = vlen - 1
                /\ Slice(vbuf', 0, vlen') = Without(Slice(vbuf, 0, vlen), index)
           ELSE vret' = <<"Err">> /\ vlen' = vlen /\ vbuf' = vbuf]_vars

\* C3: truncate(n) with n <= len destroys exactly the elements at [n, len), each
\* once, keeps [0, n) and sets len to n; with n > len it changes nothing; clear()
\* has the effect of truncate(0).
C3_TruncateContract ==
    [][/\ \A len \in 0..(vec_capacity + 1) :
            VTruncateTo(len) =>
              IF len <= vlen
              THEN /\ vstate' = "live"
                   /\ vlen' = len
                   /\ \A i \in 0..(len - 1) : vbuf'[i] = vbuf[i]
                   /\ vout' = Bump(vout, Slice(vbuf, len, vlen))
              ELSE UNCHANGED <<vbuf, vlen, vout>>
       /\ VClear => vlen' = 0 /\ vout' = Bump(vout, Slice(vbuf, 0, vlen))]_vars

\* C4: after any sequence of public operations len <= N, every slot in [0, len)
\* holds a value, and every value ever stored is in exactly one place: live in
\* one slot, or handed back or destroyed exactly once; once the vector has been
\* torn down every value has left it exactly once.
C4_VecOwnership ==
    vstate # "aborted" =>
        /\ vlen <= vec_capacity
        /\ \A i \in 0..(vlen - 1) : vbuf[i] # Uninit
        /\ \A id \in 1..(vnext - 1) :
              (IF vstate = "live" THEN Occ(Slice(vbuf, 0, vlen), id) ELSE 0) + vout[id] = 1

\* ----------------------------------------------------------- InplaceDeque
\* cap is the const parameter N.  ok turns FALSE, and stays so, as soon as a raw
\* copy is asked to leave the buffer, a copy_nonoverlapping is given overlapping
\* ranges, or an internal debug assertion would fail.
Deque(cap, buf, head, len, ok) ==
    [cap |-> cap, buf |-> buf, head |-> head, len |-> len, ok |-> ok]

deque_new(cap) == Deque(cap, [i \in 0..(cap - 1) |-> Uninit], 0, 0, TRUE)

deque_capacity(d) == d.cap

deque_is_empty(d) == d.len = 0

deque_is_full_off(d) == d.len + 1 >= d.cap
deque_is_full(d) == d.len = d.cap

is_power_of_two(n) == \E e \in 0..n : 2 ^ e = n

\* For a power of two the code masks with CAPACITY - 1, which is the remainder.
\* All arguments stay below 2 * CAPACITY, far from the width of usize.
wrap_index(CAPACITY, logical_index) ==
    IF is_power_of_two(CAPACITY) THEN logical_index % CAPACITY
    ELSE IF logical_index >= CAPACITY THEN logical_index - CAPACITY
    ELSE logical_index

\* The debug assertion wrap_index begins with.
wrap_index_accepted(CAPACITY, logical_index) ==
    \/ (logical_index = 0 /\ CAPACITY = 0)
    \/ logical_index < CAPACITY
    \/ (logical_index >= CAPACITY /\ logical_index - CAPACITY < CAPACITY)

wrap_add(d, index, addend) == wrap_index(d.cap, index + addend)

wrap_sub(d, index, subtrahend) == wrap_index(d.cap, index - subtrahend + deque_capacity(d))

to_physical_index(d, index) == wrap_add(d, d.head, index)

\* usize subtraction as a build without overflow checks computes it.
wrapping_sub(a, b) == (a - b) % (2 ^ UsizeBits)

\* crate::slice::range(start..end, ..len).
slice_range(start, end, len) ==
    IF start > end THEN <<"Err">>
    ELSE IF end > len THEN <<"Err">>
    ELSE <<"Ok", start, end>>

\* slice::range(..).unwrap_unchecked().  On Err this is undefined behaviour: a
\* build with the standard library's precondition checks aborts in
\* unreachable_unchecked, a build without them takes the Err arm for
\* unreachable and goes on with start and end as they were computed.
range_unwrap_unchecked(start, end, len) ==
    IF slice_range(start, end, len)[1] = "Ok" THEN {<<"Ok", start, end>>}
    ELSE {<<"Abort">>, <<"Unchecked", start, end>>}

\* The ranges slice::range gave; ranges are pairs <<first, past-last>>.
slice_ranges(d, start, end) ==
    LET len == wrapping_sub(end, start)
    IN IF len = 0 THEN <<(<<0, 0>>), (<<0, 0>>)>>
       ELSE LET wrapped_start == to_physical_index(d, start)
                head_len == deque_capacity(d) - wrapped_start
            IN IF head_len >= len
               THEN <<(<<wrapped_start, wrapped_start + len>>), (<<0, 0>>)>>
               ELSE <<(<<wrapped_start, deque_capacity(d)>>), (<<0, len - head_len>>)>>

buffer_range(d, range) == Slice(d.buf, range[1], range[2])

\* The pair of slices, front then back.
deque_as_slices(d) ==
    LET r == slice_ranges(d, 0, d.len)
    IN <<buffer_range(d, r[1]), buffer_range(d, r[2])>>

is_contiguous_strict(d) == d.head < deque_capacity(d) - d.len
is_contiguous(d) == d.head <= deque_capacity(d) - d.len

deque_get(d, index) ==
    IF index >= d.len THEN <<"None">>
    ELSE <<"Some", d.buf[to_physical_index(d, index)]>>

\* Forward iteration: Iter over the front slice, then the back slice.
deque_iter(d) == deque_as_slices(d)[1] \o deque_as_slices(d)[2]

\* [T]::split_at(mid): panics when mid is past the end.
split_at(s, mid) ==
    IF mid > Len(s) THEN <<"Panic">>
    ELSE <<"Ok", SubSeq(s, 1, mid), SubSeq(s, mid + 1, Len(s))>>

\* The second branch without its middle section.
deque_eq_no_mid(self, other) ==
    IF self.len # other.len THEN <<"Bool", FALSE>>
    ELSE LET self_a == deque_as_slices(self)[1]
             self_b == deque_as_slices(self)[2]
             other_a == deque_as_slices(other)[1]
             other_b == deque_as_slices(other)[2]
         IN IF Len(self_a) = Len(other_a)
            THEN <<"Bool", self_a = other_a /\ self_b = other_b>>
            ELSE <<"Bool", SubSeq(self_a, 1, Min(Len(self_a), Len(other_a)))
                             = SubSeq(other_a, 1, Min(Len(self_a), Len(other_a)))
                           /\ SubSeq(self_b, Len(self_b) - Min(Len(self_b), Len(other_b)) + 1, Len(self_b))
                             = SubSeq(other_b, Len(other_b) - Min(Len(self_b), Len(other_b)) + 1, Len(other_b))>>

\* PartialEq::eq.  Slices compare equal when they have the same length and the
\* same elements; a failed split_at or debug_assert_eq! is a panic.
deque_eq(self, other) ==
    IF self.len # other.len THEN <<"Bool", FALSE>>
    ELSE LET self_a == deque_as_slices(self)[1]
             self_b == deque_as_slices(self)[2]
             other_a == deque_as_slices(other)[1]
             other_b == deque_as_slices(other)[2]
         IN IF Len(self_a) = Len(other_a)
            THEN <<"Bool", self_a = other_a /\ self_b = other_b>>
            ELSE IF Len(self_a) < Len(other_a)
            THEN LET front == Len(self_a)
                     mid == Len(other_a) - front
                     oa == split_at(other_a, front)
                     sb == split_at(self_b, mid)
                 IN IF oa[1] = "Panic" \/ sb[1] = "Panic" THEN <<"Panic">>
                    ELSE LET other_a_front == oa[2]
                             other_a_mid == oa[3]
                             self_b_mid == sb[2]
                             self_b_back == sb[3]
                         IN IF \/ Len(self_a) # Len(other_a_front)
                               \/ Len(self_b_mid) # Len(other_a_mid)
                               \/ Len(self_b_back) # Len(other_b)
                            THEN <<"Panic">>
                            ELSE <<"Bool", /\ self_a = other_a_front
                                           /\ self_b_mid = other_a_mid
                                           /\ self_b_back = other_b>>
            ELSE LET front == Len(other_a)
                     mid == Len(self_a) - front
                     sa == split_at(self_a, front)
                     ob == split_at(other_b, mid)
                 IN IF sa[1] = "Panic" \/ ob[1] = "Panic" THEN <<"Panic">>
                    ELSE LET self_a_front == sa[2]
                             self_a_mid == sa[3]
                             other_b_mid == ob[2]
                             other_b_back == ob[3]
                         IN IF \/ Len(self_a_front) # Len(other_a)
                               \/ Len(self_a_mid) # Len(other_b_mid)
                               \/ Len(self_b) # Len(other_b_back)
                            THEN <<"Panic">>
                            ELSE <<"Bool", /\ self_a_front = other_a
                                           /\ self_a_mid = other_b_mid
                                           /\ self_b = other_b_back>>

\* Hash::hash: what the hasher is fed, write_usize(len) and then each element.
deque_hash(d) == <<d.len>> \o deque_iter(d)

InBuffer(d, src, dst, len) ==
    dst + len <= deque_capacity(d) /\ src + len <= deque_capacity(d)

deque_copy(d, src, dst, len) ==
    IF InBuffer(d, src, dst, len)
    THEN [d EXCEPT !.buf = ptr_copy(d.buf, src, dst, len)]
    ELSE [d EXCEPT !.ok = FALSE]

\* The arguments taken in the wrong order.
deque_copy_nonoverlapping_swapped(d, src, dst, len) ==
    IF InBuffer(d, src, dst, len) /\ (len = 0 \/ src + len <= dst \/ dst + len <= src)
    THEN [d EXCEPT !.buf = ptr_copy(d.buf, dst, src, len)]
    ELSE [d EXCEPT !.ok = FALSE]
deque_copy_nonoverlapping(d, src, dst, len) ==
    IF InBuffer(d, src, dst, len) /\ (len = 0 \/ src + len <= dst \/ dst + len <= src)
    THEN [d EXCEPT !.buf = ptr_copy(d.buf, src, dst, len)]
    ELSE [d EXCEPT !.ok = FALSE]

AbsDiff(a, b) == IF a < b THEN b - a ELSE a - b

\* A copy that stops at the end of the buffer instead of wrapping.
wrap_copy_unwrapped(d0, src, dst, len) ==
    deque_copy(d0, src, dst,
               Min(len, Min(deque_capacity(d0) - src, deque_capacity(d0) - dst)))

wrap_copy(d0, src, dst, len) ==
    LET cap == deque_capacity(d0)
        d == [d0 EXCEPT !.ok = @ /\ Min(AbsDiff(src, dst), cap - AbsDiff(src, dst)) + len <= cap]
    IN IF src = dst \/ len = 0 THEN d
       ELSE LET dst_after_src == wrap_sub(d, dst, src) < len
                src_pre_wrap_len == cap - src
                dst_pre_wrap_len == cap - dst
                src_wraps == src_pre_wrap_len < len
                dst_wraps == dst_pre_wrap_len < len
            IN CASE ~src_wraps /\ ~dst_wraps -> deque_copy(d, src, dst, len)
                 [] ~dst_after_src /\ ~src_wraps /\ dst_wraps ->
                      deque_copy(deque_copy(d, src, dst, dst_pre_wrap_len),
                                 src + dst_pre_wrap_len, 0, len - dst_pre_wrap_len)
                 [] dst_after_src /\ ~src_wraps /\ dst_wraps ->
                      deque_copy(deque_copy(d, src + dst_pre_wrap_len, 0, len - dst_pre_wrap_len),
                                 src, dst, dst_pre_wrap_len)
                 [] ~dst_after_src /\ src_wraps /\ ~dst_wraps ->
                      deque_copy(deque_copy(d, src, dst, src_pre_wrap_len),
                                 0, dst + src_pre_wrap_len, len - src_pre_wrap_len)
                 [] dst_after_src /\ src_wraps /\ ~dst_wraps ->
                      deque_copy(deque_copy(d, 0, dst + src_pre_wrap_len, len - src_pre_wrap_len),
                                 src, dst, src_pre_wrap_len)
                 [] ~dst_after_src /\ src_wraps /\ dst_wraps ->
                      LET delta == dst_pre_wrap_len - src_pre_wrap_len
                          d1 == [d EXCEPT !.ok = @ /\ dst_pre_wrap_len > src_pre_wrap_len]
                      IN deque_copy(deque_copy(deque_copy(d1, src, dst, src_pre_wrap_len),
                                               0, dst + src_pre_wrap_len, delta),
                                    delta, 0, len - dst_pre_wrap_len)
                 [] dst_after_src /\ src_wraps /\ dst_wraps ->
                      LET delta == src_pre_wrap_len - dst_pre_wrap_len
                          d1 == [d EXCEPT !.ok = @ /\ src_pre_wrap_len > dst_pre_wrap_len]
                      IN deque_copy(deque_copy(deque_copy(d1, 0, delta, len - src_pre_wrap_len),
                                               cap - delta, 0, delta),
                                    src, dst, dst_pre_wrap_len)

\* Writing the sequence s back over the slots starting at lo.
WriteSlice(buf, lo, s) ==
    [i \in DOMAIN buf |-> IF lo <= i /\ i < lo + Len(s) THEN s[i - lo + 1] ELSE buf[i]]

\* <[T]>::rotate_left / rotate_right of the standard library.
slice_rotate_left(s, mid) == [i \in 1..Len(s) |-> s[((i - 1 + mid) % Len(s)) + 1]]
slice_rotate_right(s, k) == [i \in 1..Len(s) |-> s[((i - 1 + Len(s) - k) % Len(s)) + 1]]

\* What a deque operation did: the deque afterwards, the value returned and the
\* slots' contents it destroyed, in order.
DOutcome(d, ret, drops) == [d |-> d, ret |-> ret, drops |-> drops]

deque_swap(d, i, j) ==
    IF i >= d.len \/ j >= d.len THEN DOutcome(d, <<"Err">>, <<>>)
    ELSE LET index_i == to_physical_index(d, i)
             index_j == to_physical_index(d, j)
         IN DOutcome([d EXCEPT !.buf = [@ EXCEPT ![index_i] = d.buf[index_j],
                                                 ![index_j] = d.buf[index_i]]],
                     <<"Ok">>, <<>>)

deque_truncate(d, len) ==
    IF len >= d.len THEN DOutcome(d, <<"Unit">>, <<>>)
    ELSE LET front == deque_as_slices(d)[1]
             back == deque_as_slices(d)[2]
         IN IF len > Len(front)
            THEN LET begin == len - Len(front)
                 IN DOutcome([d EXCEPT !.len = len], <<"Unit">>,
                             SubSeq(back, begin + 1, Len(back)))
            ELSE DOutcome([d EXCEPT !.len = len], <<"Unit">>,
                          SubSeq(front, len + 1, Len(front)) \o back)

deque_clear(d) ==
    LET o == deque_truncate(d, 0)
    IN DOutcome([o.d EXCEPT !.head = 0], <<"Unit">>, o.drops)

deque_pop_front_keep_head(d) ==
    IF deque_is_empty(d) THEN DOutcome(d, <<"None">>, <<>>)
    ELSE DOutcome([d EXCEPT !.len = @ - 1], <<"Some", d.buf[d.head]>>, <<>>)

deque_pop_front(d) ==
    IF deque_is_empty(d) THEN DOutcome(d, <<"None">>, <<>>)
    ELSE LET old_head == d.head
         IN DOutcome([d EXCEPT !.head = to_physical_index(d, 1), !.len = @ - 1],
                     <<"Some", d.buf[old_head]>>, <<>>)

deque_pop_back(d) ==
    IF deque_is_empty(d) THEN DOutcome(d, <<"None">>, <<>>)
    ELSE LET d1 == [d EXCEPT !.len = @ - 1]
             old_tail == to_physical_index(d1, d1.len)
         IN DOutcome(d1, <<"Some", d.buf[old_tail]>>, <<>>)

deque_push_front_head_kept(d, value) ==
    IF deque_is_full(d) THEN DOutcome(d, <<"Err", value>>, <<>>)
    ELSE DOutcome([d EXCEPT !.buf[wrap_sub(d, d.head, 1)] = value, !.len = @ + 1], <<"Ok">>, <<>>)
deque_push_front(d, value) ==
    IF deque_is_full(d) THEN DOutcome(d, <<"Err", value>>, <<>>)
    ELSE LET head == wrap_sub(d, d.head, 1)
         IN DOutcome([d EXCEPT !.head = head, !.buf = [@ EXCEPT ![head] = value],
                               !.len = @ + 1],
                     <<"Ok">>, <<>>)

deque_push_back(d, value) ==
    IF deque_is_full(d) THEN DOutcome(d, <<"Err", value>>, <<>>)
    ELSE LET index == to_physical_index(d, d.len)
         IN DOutcome([d EXCEPT !.buf = [@ EXCEPT ![index] = value], !.len = @ + 1],
                     <<"Ok">>, <<>>)

deque_swap_remove_front(d, index) ==
    IF index >= d.len THEN DOutcome(d, <<"None">>, <<>>)
    ELSE deque_pop_front(IF index # 0 THEN deque_swap(d, index, 0).d ELSE d)

deque_swap_remove_back(d, index) ==
    IF index >= d.len THEN DOutcome(d, <<"None">>, <<>>)
    ELSE deque_pop_back(IF index # d.len - 1 THEN deque_swap(d, index, d.len - 1).d ELSE d)

\* The len that insert hands to wrap_copy.
deque_insert_copy_len(d, index) ==
    LET front_len == index
        back_len == d.len - index
    IN IF back_len < front_len THEN back_len ELSE index

\* The len that remove hands to wrap_copy.
deque_remove_copy_len(d, index) ==
    LET front_len == d.len
        back_len == d.len - index - 1
    IN IF back_len < front_len THEN back_len ELSE index

\* An insert that writes the value without making room for it.
deque_insert_no_shift(d, index, value) ==
    IF index > d.len THEN DOutcome(d, <<"Err", value>>, <<>>)
    ELSE IF deque_is_full(d) THEN DOutcome(d, <<"Err", value>>, <<>>)
    ELSE DOutcome([d EXCEPT !.buf = [@ EXCEPT ![to_physical_index(d, index)] = value],
                            !.len = @ + 1],
                  <<"Ok">>, <<>>)

deque_insert(d, index, value) ==
    IF index > d.len THEN DOutcome(d, <<"Err", value>>, <<>>)
    ELSE IF deque_is_full(d) THEN DOutcome(d, <<"Err", value>>, <<>>)
    ELSE LET front_len == index
             back_len == d.len - index
             d1 == IF back_len < front_len
                   THEN wrap_copy(d, to_physical_index(d, index),
                                  to_physical_index(d, index + 1), back_len)
                   ELSE LET old_head == d.head
                            d0 == [d EXCEPT !.head = wrap_sub(d, d.head, 1)]
                        IN wrap_copy(d0, old_head, d0.head, index)
             slot == to_physical_index(d1, index)
         IN DOutcome([d1 EXCEPT !.buf = [@ EXCEPT ![slot] = value], !.len = @ + 1],
                     <<"Ok">>, <<>>)

\* front_len is self.len here (not index), so the first branch is always taken.
deque_remove(d, index) ==
    IF index >= d.len THEN DOutcome(d, <<"None">>, <<>>)
    ELSE LET wrapped_index == to_physical_index(d, index)
             value == d.buf[wrapped_index]
             front_len == d.len
             back_len == d.len - index - 1
             d1 == IF back_len < front_len
                   THEN wrap_copy(d, wrap_add(d, wrapped_index, 1), wrapped_index, back_len)
                   ELSE LET old_head == d.head
                            d0 == [d EXCEPT !.head = to_physical_index(d, 1)]
                        IN wrap_copy(d0, old_head, d0.head, index)
         IN DOutcome([d1 EXCEPT !.len = @ - 1], <<"Some", value>>, <<>>)

\* ptr::copy_nonoverlapping from a slice of another deque, wrapping at the end.
copy_slice_unwrapped(d, dst, src) ==
    [d EXCEPT !.buf = WriteSlice(@, dst, SubSeq(src, 1, Min(Len(src), deque_capacity(d) - dst)))]
copy_slice(d, dst, src) ==
    LET head_room == deque_capacity(d) - dst
        d1 == [d EXCEPT !.ok = @ /\ Len(src) <= deque_capacity(d)]
    IN IF Len(src) <= head_room
       THEN [d1 EXCEPT !.buf = WriteSlice(@, dst, src)]
       ELSE [d1 EXCEPT !.buf = WriteSlice(WriteSlice(@, dst, SubSeq(src, 1, head_room)),
                                          0, SubSeq(src, head_room + 1, Len(src)))]

\* append returns both deques.
deque_append(d, other) ==
    IF other.len > deque_capacity(d) - d.len
    THEN [d |-> d, other |-> other, ret |-> <<"Err">>]
    ELSE LET left == deque_as_slices(other)[1]
             right == deque_as_slices(other)[2]
             d1 == copy_slice(d, to_physical_index(d, d.len), left)
             d2 == copy_slice(d1, to_physical_index(d1, d1.len + Len(left)), right)
         IN [d |-> [d2 EXCEPT !.len = @ + other.len],
             other |-> [other EXCEPT !.len = 0, !.head = 0],
             ret |-> <<"Ok">>]

\* retain_mut, f being the set of values the predicate accepts.
\* Stage 1 returns <<index, current_index>>.
RECURSIVE retain_stage1(_, _, _, _)
retain_stage1(d, f, index, current_index) ==
    IF ~(current_index < d.len) THEN <<index, current_index>>
    ELSE IF d.buf[to_physical_index(d, current_index)] \notin f
         THEN <<index, current_index + 1>>
         ELSE retain_stage1(d, f, index + 1, current_index + 1)

\* Stage 2 returns the deque, index and current_index.
RECURSIVE retain_stage2(_, _, _, _)
retain_stage2(d, f, index, current_index) ==
    IF ~(current_index < d.len) THEN <<d, index, current_index>>
    ELSE IF d.buf[to_physical_index(d, current_index)] \notin f
         THEN retain_stage2(d, f, index, current_index + 1)
         ELSE retain_stage2(deque_swap(d, index, current_index).d, f,
                            index + 1, current_index + 1)

deque_retain_mut(d, f) ==
    LET s1 == retain_stage1(d, f, 0, 0)
        s2 == retain_stage2(d, f, s1[1], s1[2])
    IN IF s2[3] # s2[2] THEN deque_truncate(s2[1], s2[2])
       ELSE DOutcome(s2[1], <<"Unit">>, <<>>)

\* The slice make_contiguous returns: len slots starting at head.  The outcome
\* also names the strategy that was taken.
contiguous_slice(d) == Slice(d.buf, d.head, d.head + d.len)

make_contiguous(d) ==
    IF is_contiguous(d) THEN DOutcome(d, <<"Slice", contiguous_slice(d), "contiguous">>, <<>>)
    ELSE LET head == d.head
             len == d.len
             capacity == deque_capacity(d)
             free == capacity - len
             head_len == capacity - head
             tail == len - head_len
             tail_len == tail
             d9 ==
               IF free >= head_len
               THEN [deque_copy_nonoverlapping(deque_copy(d, 0, head_len, tail_len),
                                               head, 0, head_len)
                       EXCEPT !.head = 0]
               ELSE IF free >= tail_len
               THEN [deque_copy_nonoverlapping(deque_copy(d, head, tail, head_len),
                                               0, tail + head_len, tail_len)
                       EXCEPT !.head = tail]
               ELSE IF head_len > tail_len
               THEN LET d1 == IF free # 0 THEN deque_copy(d, 0, free, tail_len) ELSE d
                        slice == Slice(d1.buf, free, capacity)
                    IN [d1 EXCEPT !.buf = WriteSlice(@, free, slice_rotate_left(slice, tail_len)),
                                  !.head = free]
               ELSE LET d1 == IF free # 0 THEN deque_copy(d, d.head, tail_len, head_len) ELSE d
                        slice == Slice(d1.buf, 0, d1.len)
                    IN [d1 EXCEPT !.buf = WriteSlice(@, 0, slice_rotate_right(slice, head_len)),
                                  !.head = 0]
             strategy == IF free >= head_len THEN "tail_back"
                         ELSE IF free >= tail_len THEN "head_forward"
                         ELSE IF head_len > tail_len THEN "rotate_left"
                         ELSE "rotate_right"
         IN DOutcome(d9, <<"Slice", contiguous_slice(d9), strategy>>, <<>>)

\* InplaceVec::into_raw and from_raw: the buffer and len, taken out of and put
\* into a vector as they are.
vec_into_raw(v) == <<v.buf, v.len>>
vec_from_raw(buf, len) == Vec(buf, len)

\* From<InplaceVec<T, N>> for InplaceDeque<T, N>.
deque_from_vec(other) ==
    LET raw == vec_into_raw(other)
    IN Deque(Cardinality(DOMAIN raw[1]), raw[1], 0, raw[2], TRUE)

\* From<InplaceDeque<T, N>> for InplaceVec<T, N>.
vec_from_deque_no_copy(other) ==
    vec_from_raw(make_contiguous(other).d.buf, make_contiguous(other).d.len)
vec_from_deque(other) ==
    LET o == make_contiguous(other).d
        len == o.len
        buf == IF o.head # 0 THEN ptr_copy(o.buf, o.head, 0, len) ELSE o.buf
    IN vec_from_raw(buf, len)

\* A rotation that moves head without copying the elements across the gap.
rotate_left_inner_head_only(d, mid) ==
    [d EXCEPT !.ok = @ /\ mid * 2 <= d.len, !.head = to_physical_index(d, mid)]

rotate_left_inner(d, mid) ==
    LET d1 == wrap_copy([d EXCEPT !.ok = @ /\ mid * 2 <= d.len],
                        d.head, to_physical_index(d, d.len), mid)
    IN [d1 EXCEPT !.head = to_physical_index(d1, mid)]

rotate_right_inner(d, k) ==
    LET d1 == [d EXCEPT !.ok = @ /\ k * 2 <= d.len, !.head = wrap_sub(d, d.head, k)]
    IN wrap_copy(d1, to_physical_index(d1, d1.len), d1.head, k)

deque_rotate_left(d, n) ==
    IF n > d.len THEN DOutcome(d, <<"Err">>, <<>>)
    ELSE LET front_len == n
             back_len == d.len - n
         IN DOutcome(IF front_len <= back_len THEN rotate_left_inner(d, n)
                     ELSE rotate_right_inner(d, back_len),
                     <<"Ok">>, <<>>)

deque_rotate_right(d, n) ==
    IF n > d.len THEN DOutcome(d, <<"Err">>, <<>>)
    ELSE LET front_len == n
             back_len == d.len - n
         IN DOutcome(IF front_len <= back_len THEN rotate_right_inner(d, n)
                     ELSE rotate_left_inner(d, back_len),
                     <<"Ok">>, <<>>)

\* Drop for InplaceDeque: the front slice, then the back slice.
deque_drop(d) == deque_as_slices(d)[1] \o deque_as_slices(d)[2]

\* FromIterator for InplaceDeque.
deque_from_iter(cap, items) ==
    LET q == deque_new(cap)
        z == zip_write(q.buf, 0, items)
    IN [q EXCEPT !.buf = z.buf, !.len = z.count]

\* ------------------------------------------------------------------ Drain
\* The Drain's own fields; drain_start is kept in the deque's len.
Drain(drain_len, index, new_len, remaining) ==
    [drain_len |-> drain_len, index |-> index, new_len |-> new_len, remaining |-> remaining]

\* Drain::new: <<the deque, the drain>>.
Drain_new_keep_len(d, drain_start, drain_len) ==
    <<d, Drain(drain_len, drain_start, d.len - drain_len, drain_len)>>
Drain_new(d, drain_start, drain_len) ==
    LET orig_len == d.len
        new_len == wrapping_sub(orig_len, drain_len)
    IN <<[d EXCEPT !.len = drain_start], Drain(drain_len, drain_start, new_len, drain_len)>>

\* InplaceDeque::drain for a range start..end that slice::range accepts.
deque_drain(d, start, end) == Drain_new(d, start, end - start)

\* InplaceDeque::drain for any range: the outcomes as <<deque, drain, returned>>.
\* ok is lost when the range was one slice::range rejects.
deque_drain_unchecked(d, start, end) ==
    {IF r[1] = "Abort" THEN <<d, <<>>, <<"Abort">> >>
     ELSE LET n == Drain_new(d, r[2], wrapping_sub(r[3], r[2]))
          IN <<[n[1] EXCEPT !.ok = (r[1] = "Ok")], n[2], <<"Drain">> >>
       : r \in range_unwrap_unchecked(start, end, d.len)}

\* InplaceDeque::range and range_mut: the outcomes; the iterator is given as the
\* two physical ranges it walks.
deque_range(d, start, end) ==
    {IF r[1] = "Abort" THEN DOutcome(d, <<"Abort">>, <<>>)
     ELSE LET ranges == slice_ranges(d, r[2], r[3])
          IN DOutcome([d EXCEPT !.ok = (r[1] = "Ok")], <<"Iter", ranges[1], ranges[2]>>, <<>>)
       : r \in range_unwrap_unchecked(start, end, d.len)}

\* The not yet yielded elements as two slices.
Drain_as_slices(d, dr) ==
    LET r == slice_ranges(d, dr.index, dr.index + dr.remaining)
    IN <<buffer_range(d, r[1]), buffer_range(d, r[2])>>

\* next / next_back: <<the drain, the value returned>>.
Drain_next(d, dr) ==
    IF dr.remaining = 0 THEN <<dr, <<"None">> >>
    ELSE LET wrapped_index == to_physical_index(d, dr.index)
         IN <<[dr EXCEPT !.index = @ + 1, !.remaining = @ - 1],
              <<"Some", d.buf[wrapped_index]>> >>

Drain_next_back_keep_remaining(d, dr) ==
    IF dr.remaining = 0 THEN <<dr, <<"None">> >>
    ELSE <<dr, <<"Some", d.buf[to_physical_index(d, dr.index + dr.remaining - 1)]>> >>
Drain_next_back(d, dr) ==
    IF dr.remaining = 0 THEN <<dr, <<"None">> >>
    ELSE LET dr1 == [dr EXCEPT !.remaining = @ - 1]
             wrapped_index == to_physical_index(d, dr1.index + dr1.remaining)
         IN <<dr1, <<"Some", d.buf[wrapped_index]>> >>

join_head_and_tail_wrapping_tail_only(source_deque, drain_len, head_len, tail_len) ==
    wrap_copy(source_deque, to_physical_index(source_deque, head_len + drain_len),
              to_physical_index(source_deque, head_len), tail_len)
join_head_and_tail_wrapping(source_deque, drain_len, head_len, tail_len) ==
    IF head_len < tail_len
    THEN wrap_copy(source_deque, source_deque.head,
                   to_physical_index(source_deque, drain_len), head_len)
    ELSE wrap_copy(source_deque, to_physical_index(source_deque, head_len + drain_len),
                   to_physical_index(source_deque, head_len), tail_len)

\* Drop for DropGuard once nothing is left to destroy: close the gap.
DropGuard_drop(source_deque, dr) ==
    LET drain_len == dr.drain_len
        new_len == dr.new_len
        head_len == source_deque.len
        tail_len == new_len - head_len
        d1 == IF head_len # 0 /\ tail_len # 0
              THEN join_head_and_tail_wrapping(source_deque, drain_len, head_len, tail_len)
              ELSE source_deque
        d2 == IF new_len = 0 THEN [d1 EXCEPT !.head = 0]
              ELSE IF head_len < tail_len
              THEN [d1 EXCEPT !.head = to_physical_index(d1, drain_len)]
              ELSE d1
    IN [d2 EXCEPT !.len = new_len]

\* What DropGuard's drop destroys before it closes the gap.
DropGuard_slices(d, dr) ==
    IF dr.remaining # 0 THEN Drain_as_slices(d, dr)[1] \o Drain_as_slices(d, dr)[2]
    ELSE <<>>

\* Drop for Drain when the teardown of the value bomb panics.  The elements not
\* yet yielded are destroyed, front slice then back slice; index and remaining
\* skip the front slice before it is destroyed.  A slice's drop goes on with
\* its other elements when one panics; the panic then unwinds through the
\* guard, which destroys what remaining still counts and closes the gap.
Drain_drop_unwinding_late(d, dr, bomb) ==
    LET front == Drain_as_slices(d, dr)[1]
        back == Drain_as_slices(d, dr)[2]
    IN IF dr.remaining = 0 THEN DOutcome(DropGuard_drop(d, dr), <<"Unit">>, <<>>)
       ELSE IF \E i \in DOMAIN front : front[i] = bomb
       THEN DOutcome(DropGuard_drop(d, dr), <<"Panic", "teardown">>,
                     front \o DropGuard_slices(d, dr))
       ELSE DOutcome(DropGuard_drop(d, dr),
                     IF \E i \in DOMAIN back : back[i] = bomb
                     THEN <<"Panic", "teardown">> ELSE <<"Unit">>,
                     front \o back)
Drain_drop_unwinding(d, dr, bomb) ==
    LET front == Drain_as_slices(d, dr)[1]
        back == Drain_as_slices(d, dr)[2]
        dr1 == [dr EXCEPT !.index = @ + Len(front), !.remaining = @ - Len(front)]
        dr2 == [dr1 EXCEPT !.remaining = 0]
    IN IF dr.remaining = 0 THEN DOutcome(DropGuard_drop(d, dr), <<"Unit">>, <<>>)
       ELSE IF \E i \in DOMAIN front : front[i] = bomb
       THEN DOutcome(DropGuard_drop(d, dr1), <<"Panic", "teardown">>,
                     front \o DropGuard_slices(d, dr1))
       ELSE DOutcome(DropGuard_drop(d, dr2),
                     IF \E i \in DOMAIN back : back[i] = bomb
                     THEN <<"Panic", "teardown">> ELSE <<"Unit">>,
                     front \o back)

\* Drop for Drain, no teardown failing.
Drain_drop(d, dr) == Drain_drop_unwinding(d, dr, Uninit)

\* ---------------------------------------------------- InplaceDeque: actions
DVals == 1..(DequeVals + DrainVals + RingVals)
NoDrain == <<>>

TheDeque == Deque(dcap, dbuf, dhead, dlen, dok)

\* The caller either drives every operation but drain ("all"), or fills the
\* deque from both ends and drains it ("drain"), or uses the deque as a queue: push_back
\* with pop_front ("back_front") or push_front with pop_back ("front_back"), or
\* calls the index- and range-based operations with any argument ("bounds"), or
\* has been turned into a vector ("moved"), or only rotates it ("rotate"), or
\* collects the deque from a sequence and drains it with a teardown that panics
\* ("unwind").
ValBudget ==
    IF dmode \in {"all", "bounds"} THEN DequeVals
    ELSE IF dmode = "drain" THEN DrainVals
    ELSE IF dmode = "unwind" THEN UnwindVals
    ELSE RingVals

DequeStart(caps, mode) ==
    /\ RestIdle
    /\ VecIdle
    /\ HeapIdle
    /\ dcap \in caps
    /\ dbuf = deque_new(dcap).buf
    /\ dhead = 0
    /\ dlen = 0
    /\ dok = TRUE
    /\ dnext = 1
    /\ dop = "new"
    /\ dret = <<"Unit">>
    /\ dout = [id \in DVals |-> 0]
    /\ dleaked = {}
    /\ drain = NoDrain
    /\ dorig = <<>>
    /\ dyield = <<>>
    /\ dmode = mode

DequeInit == DequeStart({0, DequeCap}, "all") \/ DequeStart({DrainCap}, "drain")
RingInit == \E mode \in {"back_front", "front_back"} : DequeStart(0..RingCap, mode)

\* The call `call` finished with outcome o after the caller created `made` values.
DDone(call, o, made) ==
    /\ dbuf' = o.d.buf
    /\ dhead' = o.d.head
    /\ dlen' = o.d.len
    /\ dok' = o.d.ok
    /\ dnext' = dnext + made
    /\ dop' = call
    /\ dret' = o.ret
    /\ dout' = Bump(dout, Given(o.ret) \o o.drops)
    /\ dorig' = <<>>
    /\ dyield' = <<>>
    /\ UNCHANGED <<dcap, dleaked, drain, dmode>>
    /\ UNCHANGED <<vvars, hvars, xvars>>

\* Nothing is called after the process aborted or behaviour became undefined.
Callable(modes) == dmode \in modes /\ drain = NoDrain /\ dok /\ dret # <<"Abort">>
Accepted(o) == IF o.ret[1] = "Ok" THEN 1 ELSE 0

DPushBack ==
    /\ Callable({"all", "drain", "back_front", "bounds", "unwind"}) /\ dnext <= ValBudget
    /\ LET o == deque_push_back(TheDeque, dnext) IN DDone("push_back", o, Accepted(o))

DPopFront ==
    /\ Callable({"all", "back_front", "bounds"})
    /\ DDone("pop_front", deque_pop_front(TheDeque), 0)

DPushFront ==
    /\ Callable({"all", "drain", "front_back", "bounds", "unwind"}) /\ dnext <= ValBudget
    /\ LET o == deque_push_front(TheDeque, dnext) IN DDone("push_front", o, Accepted(o))

DPopBack ==
    /\ Callable({"all", "front_back"})
    /\ DDone("pop_back", deque_pop_back(TheDeque), 0)

\* The outcome also tells whether the call before this one was make_contiguous too.
DMakeContiguous ==
    /\ Callable({"all", "back_front", "front_back"})
    /\ LET o == make_contiguous(TheDeque)
       IN DDone("make_contiguous",
                [o EXCEPT !.ret = Append(@, dop = "make_contiguous")], 0)

DInsert ==
    /\ Callable({"all"}) /\ dnext <= ValBudget
    /\ \E index \in 0..(dlen + 1) :
          LET o == deque_insert(TheDeque, index, dnext) IN DDone("insert", o, Accepted(o))

DRemove ==
    /\ Callable({"all", "bounds"})
    /\ \E index \in 0..dlen : DDone("remove", deque_remove(TheDeque, index), 0)

DSwapRemoveFront ==
    /\ Callable({"all", "bounds"})
    /\ \E index \in 0..dlen :
          DDone("swap_remove_front", deque_swap_remove_front(TheDeque, index), 0)

DSwapRemoveBack ==
    /\ Callable({"all", "bounds"})
    /\ \E index \in 0..dlen :
          DDone("swap_remove_back", deque_swap_remove_back(TheDeque, index), 0)

DTruncate ==
    /\ Callable({"all"})
    /\ \E len \in 0..(dlen + 1) : DDone("truncate", deque_truncate(TheDeque, len), 0)

DClear ==
    /\ Callable({"all"})
    /\ DDone("clear", deque_clear(TheDeque), 0)

\* other is collected from count fresh values, appended, and dropped afterwards.
DAppend ==
    /\ Callable({"all"})
    /\ \E count \in 0..Min(dcap, dcap - dlen + 1) :
          /\ dnext + count - 1 <= ValBudget
          /\ LET other == deque_from_iter(dcap, [i \in 1..count |-> dnext + i - 1])
                 r == deque_append(TheDeque, other)
             IN DDone("append", DOutcome(r.d, r.ret, deque_drop(r.other)), count)

\* The predicates tried: keep the even values, the odd ones, all, none.
DRetainSets == {{id \in DVals : id % 2 = 0}, {id \in DVals : id % 2 = 1}, DVals, {}}

DRetain ==
    /\ Callable({"all"})
    /\ \E f \in DRetainSets : DDone("retain", deque_retain_mut(TheDeque, f), 0)

DRotateLeft ==
    /\ Callable({"all", "bounds", "rotate"})
    /\ \E n \in 0..(dlen + 1) : DDone("rotate_left", deque_rotate_left(TheDeque, n), 0)

DRotateRight ==
    /\ Callable({"all", "bounds", "rotate"})
    /\ \E n \in 0..(dlen + 1) : DDone("rotate_right", deque_rotate_right(TheDeque, n), 0)

\* No value has left the deque yet.
NothingLeft == dleaked = {} /\ \A id \in DVals : dout[id] = 0

\* drain(start..end) with start <= end <= len: the Drain borrows the deque until
\* it is dropped or forgotten.
DDrainRange(start, end) ==
    /\ Callable({"drain", "unwind"})
    /\ NothingLeft
    /\ start <= end /\ end <= dlen
    /\ LET r == deque_drain(TheDeque, start, end)
       IN /\ dlen' = r[1].len
          /\ drain' = r[2]
          /\ dorig' = [seq |-> deque_iter(TheDeque), start |-> start, end |-> end,
                       head |-> dhead]
          /\ dyield' = <<(<<>>), (<<>>)>>
          /\ dop' = "drain"
          /\ dret' = <<"Drain">>
    /\ UNCHANGED <<dcap, dbuf, dhead, dok, dnext, dout, dleaked, dmode>>
    /\ UNCHANGED <<vvars, hvars, xvars>>

DDrain == \E start \in 0..dlen : \E end \in start..dlen : DDrainRange(start, end)

DDrainNext ==
    /\ drain # NoDrain
    /\ LET r == Drain_next(TheDeque, drain)
       IN /\ drain' = r[1]
          /\ dret' = r[2]
          /\ dyield' = <<dyield[1] \o Given(r[2]), dyield[2]>>
          /\ dout' = Bump(dout, Given(r[2]))
          /\ dop' = "drain_next"
    /\ UNCHANGED <<dcap, dbuf, dhead, dlen, dok, dnext, dleaked, dorig, dmode>>
    /\ UNCHANGED <<vvars, hvars, xvars>>

DDrainNextBack ==
    /\ drain # NoDrain
    /\ LET r == Drain_next_back(TheDeque, drain)
       IN /\ drain' = r[1]
          /\ dret' = r[2]
          /\ dyield' = <<dyield[1], dyield[2] \o Given(r[2])>>
          /\ dout' = Bump(dout, Given(r[2]))
          /\ dop' = "drain_next_back"
    /\ UNCHANGED <<dcap, dbuf, dhead, dlen, dok, dnext, dleaked, dorig, dmode>>
    /\ UNCHANGED <<vvars, hvars, xvars>>

DDrainDrop ==
    /\ drain # NoDrain
    /\ LET o == Drain_drop(TheDeque, drain)
       IN /\ dbuf' = o.d.buf
          /\ dhead' = o.d.head
          /\ dlen' = o.d.len
          /\ dok' = o.d.ok
          /\ dout' = Bump(dout, o.drops)
          /\ dret' = o.ret
    /\ drain' = NoDrain
    /\ dop' = "drain_drop"
    /\ UNCHANGED <<dcap, dnext, dleaked, dorig, dyield, dmode>>
    /\ UNCHANGED <<vvars, hvars, xvars>>

\* The elements of the old deque from the drain's start on that were not yielded.
Unyielded ==
    {dorig.seq[i] : i \in (dorig.start + 1)..Len(dorig.seq)}
      \ {(dyield[1] \o dyield[2])[j] : j \in 1..Len(dyield[1] \o dyield[2])}

\* mem::forget(drain): the cleanup never runs.
DDrainForget ==
    /\ drain # NoDrain
    /\ dleaked' = dleaked \cup Unyielded
    /\ drain' = NoDrain
    /\ dop' = "drain_forget"
    /\ dret' = <<"Unit">>
    /\ UNCHANGED <<dcap, dbuf, dhead, dlen, dok, dnext, dout, dorig, dyield, dmode>>
    /\ UNCHANGED <<vvars, hvars, xvars>>

\* The arguments an index- or range-based call is tried with.
Indices == 0..(dlen + 1)

DGetAt(index) ==
    LET r == deque_get(TheDeque, index)
    IN DDone("get", DOutcome(TheDeque, IF r[1] = "Some" THEN <<"Ref", r[2]>> ELSE r, <<>>), 0)

DGet == Callable({"bounds"}) /\ \E index \in Indices : DGetAt(index)

DSwapAt(i, j) == DDone("swap", deque_swap(TheDeque, i, j), 0)

DSwap == Callable({"bounds"}) /\ \E i \in Indices : \E j \in Indices : DSwapAt(i, j)

DRangeOf(call, start, end) == \E o \in deque_range(TheDeque, start, end) : DDone(call, o, 0)

DRange ==
    Callable({"bounds"}) /\ \E start \in Indices : \E end \in Indices : DRangeOf("range", start, end)

DRangeMut ==
    Callable({"bounds"}) /\ \E start \in Indices : \E end \in Indices : DRangeOf("range_mut", start, end)

\* drain(start..end) with a range slice::range rejects (DDrain has the others).
DDrainRejectedOf(start, end) ==
    /\ slice_range(start, end, dlen)[1] = "Err"
    /\ \E r \in deque_drain_unchecked(TheDeque, start, end) :
          /\ dlen' = r[1].len
          /\ dok' = r[1].ok
          /\ drain' = r[2]
          /\ dret' = r[3]
          /\ dop' = "drain"
    /\ UNCHANGED <<dcap, dbuf, dhead, dnext, dout, dleaked, dorig, dyield, dmode>>
    /\ UNCHANGED <<vvars, hvars, xvars>>

DDrainRejected ==
    Callable({"bounds"}) /\ \E start \in Indices : \E end \in Indices : DDrainRejectedOf(start, end)

RingNext == DPushBack \/ DPopFront \/ DPushFront \/ DPopBack \/ DMakeContiguous

DequeNext ==
    \/ DPushBack \/ DPopFront \/ DPushFront \/ DPopBack \/ DMakeContiguous
    \/ DInsert \/ DRemove \/ DSwapRemoveFront \/ DSwapRemoveBack \/ DTruncate \/ DClear
    \/ DAppend \/ DRetain \/ DRotateLeft \/ DRotateRight
    \/ DDrain \/ DDrainNext \/ DDrainNextBack \/ DDrainDrop \/ DDrainForget

SpecRing == RingInit /\ [][RingNext]_vars
SpecDeque == DequeInit /\ [][DequeNext]_vars

\* InplaceVec::from(deque), once in a run: the deque is consumed; what it was
\* (head, len and the way it was used) is kept as the value returned.
DIntoVec ==
    /\ Callable({"back_front", "front_back"}) /\ vop = "none"
    /\ LET v == vec_from_deque(TheDeque)
       IN /\ vbuf' = v.buf
          /\ vlen' = v.len
          /\ vstate' = "live"
          /\ vop' = "from_deque"
    /\ dbuf' = deque_new(dcap).buf
    /\ dhead' = 0
    /\ dlen' = 0
    /\ dop' = "into_vec"
    /\ dret' = <<"Moved", dhead, dlen, dmode>>
    /\ dmode' = "moved"
    /\ UNCHANGED <<vnext, vret, vout>>
    /\ UNCHANGED <<dcap, dok, dnext, dout, dleaked, drain, dorig, dyield>>
    /\ UNCHANGED <<hvars, xvars>>

\* InplaceDeque::from(vector): the vector is consumed.
VIntoDeque ==
    /\ dmode = "moved" /\ vstate = "live"
    /\ LET q == deque_from_vec(TheVec)
       IN /\ dbuf' = q.buf
          /\ dhead' = q.head
          /\ dlen' = q.len
    /\ dop' = "from_vec"
    /\ dmode' = dret[4]
    /\ dret' = <<"Unit">>
    /\ vbuf' = <<>>
    /\ vlen' = 0
    /\ vstate' = "none"
    /\ vop' = "into_deque"
    /\ UNCHANGED <<vnext, vret, vout>>
    /\ UNCHANGED <<dcap, dok, dnext, dout, dleaked, drain, dorig, dyield>>
    /\ UNCHANGED <<hvars, xvars>>

ConvertNext == RingNext \/ DIntoVec \/ VIntoDeque

SpecConvert == RingInit /\ [][ConvertNext]_vars

\* ------------------------------------------------ comparing two deques
\* The bits of a value that has been popped.
Stale == IterCap + RotateCap + 1

\* A deque of capacity cap with len elements 1..len behind a head that k
\* push_back / pop_front pairs have moved: the slots they passed keep stale bits.
RECURSIVE Cycled(_, _)
Cycled(d, k) ==
    IF k = 0 THEN d
    ELSE Cycled(deque_pop_front(deque_push_back(d, Stale).d).d, k - 1)

RECURSIVE Filled(_, _, _)
Filled(d, from, to) ==
    IF from > to THEN d ELSE Filled(deque_push_back(d, from).d, from + 1, to)

DequesUpTo(maxcap) ==
    { Filled(Cycled(deque_new(cap), k), 1, len) :
        <<cap, k, len>> \in { t \in (1..maxcap) \X (0..maxcap) \X (0..maxcap) :
                                t[2] < t[1] /\ t[3] <= t[1] } }

RECURSIVE Pushed(_, _)
Pushed(d, q) == IF q = <<>> THEN d ELSE Pushed(deque_push_back(d, Head(q)).d, Tail(q))

\* Every state of head and len that pushes and pops lead to, holding every
\* sequence of values: k push_back / pop_front pairs, then one push_back each.
EqDeques ==
    { Pushed(Cycled(deque_new(EqCap), k), q) :
        <<k, q>> \in (0..(EqCap - 1)) \X UNION { [1..n -> 1..EqVals] : n \in 0..EqCap } }

EqInit ==
    /\ VecIdle /\ DequeIdle /\ HeapIdle /\ IterIdle /\ OnceIdle /\ SwapIdle /\ AppendIdle /\ SearchIdle /\ PoolIdle
    /\ eqself \in EqDeques
    /\ eqother \in EqDeques
    /\ eqret = <<"Unit">>

EqCompare ==
    /\ eqret = <<"Unit">>
    /\ eqret' = deque_eq(eqself, eqother)
    /\ UNCHANGED <<eqself, eqother>>
    /\ UNCHANGED <<vvars, dvars, hvars, ivars, ovars, svars, avars, bvars, pvars>>

EqHash ==
    /\ eqret = <<"Unit">>
    /\ eqret' = <<"Hashed", deque_hash(eqself), deque_hash(eqother)>>
    /\ UNCHANGED <<eqself, eqother>>
    /\ UNCHANGED <<vvars, dvars, hvars, ivars, ovars, svars, avars, bvars, pvars>>

EqNext == EqCompare \/ EqHash

SpecEq == EqInit /\ [][EqNext]_vars

\* ---------------------------------------------------------------- iterators
\* vec::IntoIter
VecIntoIter(data, start, end) ==
    [kind |-> "vec_into_iter", data |-> data, start |-> start, end |-> end]

VecIntoIter_new(data, len) == VecIntoIter(data, 0, len)

VecIntoIter_len(i) == i.end - i.start

VecIntoIter_next(i) ==
    IF VecIntoIter_len(i) = 0 THEN [it |-> i, ret |-> <<"None">>]
    ELSE [it |-> [i EXCEPT !.start = @ + 1], ret |-> <<"Some", i.data[i.start]>>]

VecIntoIter_next_back(i) ==
    IF VecIntoIter_len(i) = 0 THEN [it |-> i, ret |-> <<"None">>]
    ELSE [it |-> [i EXCEPT !.end = @ - 1], ret |-> <<"Some", i.data[i.end - 1]>>]

\* deque::IntoIter
DequeIntoIter(inner) == [kind |-> "deque_into_iter", inner |-> inner]

DequeIntoIter_new(inner) == DequeIntoIter(inner)

DequeIntoIter_len(i) == i.inner.len

DequeIntoIter_next(i) ==
    [it |-> [i EXCEPT !.inner = deque_pop_front(i.inner).d], ret |-> deque_pop_front(i.inner).ret]

DequeIntoIter_next_back(i) ==
    [it |-> [i EXCEPT !.inner = deque_pop_back(i.inner).d], ret |-> deque_pop_back(i.inner).ret]

\* core::slice::IterMut over the slots [r[1], r[2]) of the borrowed buffer; it
\* yields the slot.
slice_IterMut_len(r) == r[2] - r[1]

slice_IterMut_next(r) ==
    IF r[1] = r[2] THEN [r |-> r, ret |-> <<"None">>]
    ELSE [r |-> <<r[1] + 1, r[2]>>, ret |-> <<"Some", r[1]>>]

slice_IterMut_next_back(r) ==
    IF r[1] = r[2] THEN [r |-> r, ret |-> <<"None">>]
    ELSE [r |-> <<r[1], r[2] - 1>>, ret |-> <<"Some", r[2] - 1>>]

\* deque::IterMut; buf is the buffer the two slice iterators borrow.
IterMut(buf, i1, i2) == [kind |-> "iter_mut", buf |-> buf, i1 |-> i1, i2 |-> i2]

deque_iter_mut(d) ==
    LET r == slice_ranges(d, 0, d.len)
    IN IterMut(d.buf, r[1], r[2])

IterMut_len(i) == slice_IterMut_len(i.i1) + slice_IterMut_len(i.i2)

\* The place a yielded &mut T points to, as the value that is there.
Pointee(i, ret) == IF ret[1] = "Some" THEN <<"Some", i.buf[ret[2]]>> ELSE ret

\* next that does not fall back on the other slice.
IterMut_next_no_swap(i) ==
    LET a == slice_IterMut_next(i.i1)
    IN [it |-> [i EXCEPT !.i1 = a.r], ret |-> Pointee(i, a.ret)]

IterMut_next(i) ==
    LET a == slice_IterMut_next(i.i1)
    IN IF a.ret[1] = "Some" THEN [it |-> [i EXCEPT !.i1 = a.r], ret |-> Pointee(i, a.ret)]
       ELSE LET swapped == [i EXCEPT !.i1 = i.i2, !.i2 = a.r]
                b == slice_IterMut_next(swapped.i1)
            IN [it |-> [swapped EXCEPT !.i1 = b.r], ret |-> Pointee(i, b.ret)]

IterMut_next_back(i) ==
    LET a == slice_IterMut_next_back(i.i2)
    IN IF a.ret[1] = "Some" THEN [it |-> [i EXCEPT !.i2 = a.r], ret |-> Pointee(i, a.ret)]
       ELSE LET swapped == [i EXCEPT !.i1 = a.r, !.i2 = i.i1]
                b == slice_IterMut_next_back(swapped.i2)
            IN [it |-> [swapped EXCEPT !.i2 = b.r], ret |-> Pointee(i, b.ret)]

\* len() / size_hint() of whichever iterator it is.
iter_len(i) ==
    IF i.kind = "vec_into_iter" THEN VecIntoIter_len(i)
    ELSE IF i.kind = "deque_into_iter" THEN DequeIntoIter_len(i)
    ELSE IterMut_len(i)

IterDeques == DequesUpTo(IterCap)

IterStart(i, orig) ==
    /\ VecIdle /\ DequeIdle /\ HeapIdle /\ EqIdle /\ OnceIdle /\ SwapIdle /\ AppendIdle /\ SearchIdle /\ PoolIdle
    /\ it = i
    /\ itorig = orig
    /\ itfront = <<>>
    /\ itback = <<>>
    /\ itret = <<"Unit">>
    /\ itfused = FALSE

IterInit ==
    \/ \E len \in 0..IterCap :
          IterStart(VecIntoIter_new([s \in 0..(IterCap - 1) |-> IF s < len THEN s + 1 ELSE Uninit], len),
                    [k \in 1..len |-> k])
    \/ \E d \in IterDeques : IterStart(DequeIntoIter_new(d), deque_iter(d))
    \/ \E d \in IterDeques : IterStart(deque_iter_mut(d), deque_iter(d))

IterDone(o, front) ==
    /\ it' = o.it
    /\ itret' = o.ret
    /\ itfused' = (itfused \/ o.ret = <<"None">>)
    /\ itfront' = IF front /\ o.ret[1] = "Some" THEN Append(itfront, o.ret[2]) ELSE itfront
    /\ itback' = IF ~front /\ o.ret[1] = "Some" THEN Append(itback, o.ret[2]) ELSE itback
    /\ UNCHANGED itorig
    /\ UNCHANGED <<vvars, dvars, hvars, evars, ovars, svars, avars, bvars, pvars>>

VIntoIterNext == it.kind = "vec_into_iter" /\ IterDone(VecIntoIter_next(it), TRUE)
VIntoIterNextBack == it.kind = "vec_into_iter" /\ IterDone(VecIntoIter_next_back(it), FALSE)
DIntoIterNext == it.kind = "deque_into_iter" /\ IterDone(DequeIntoIter_next(it), TRUE)
DIntoIterNextBack == it.kind = "deque_into_iter" /\ IterDone(DequeIntoIter_next_back(it), FALSE)
DIterMutNext == it.kind = "iter_mut" /\ IterDone(IterMut_next(it), TRUE)
DIterMutNextBack == it.kind = "iter_mut" /\ IterDone(IterMut_next_back(it), FALSE)

IterNext ==
    \/ VIntoIterNext \/ VIntoIterNextBack
    \/ DIntoIterNext \/ DIntoIterNextBack
    \/ DIterMutNext \/ DIterMutNextBack

SpecIter == IterInit /\ [][IterNext]_vars

\* --------------------------------------------------------------- spsc::once
CONNECTION_BIT == "CONNECTION_BIT"

\* once(): OnceInner::new(false), a sender and a receiver; the sender thread
\* will call send(v), the receiver thread recv().
OnceInit ==
    /\ VecIdle /\ DequeIdle /\ HeapIdle /\ EqIdle /\ IterIdle /\ SwapIdle /\ AppendIdle /\ SearchIdle /\ PoolIdle
    /\ once_lock = "free"
    /\ once_value = <<"None">>
    /\ once_thread = <<"None">>
    /\ once_state = {}
    /\ once_freed = FALSE
    /\ once_spc = "lock"
    /\ once_sent \in 1..OnceVals
    /\ once_local = <<"None">>
    /\ once_rpc = "lock"
    /\ once_token = FALSE
    /\ once_ret = <<"None">>
    /\ once_parks = <<0, 0>>

OnceRest == UNCHANGED <<vvars, dvars, hvars, evars, ivars, svars, avars, bvars, pvars>>

\* OnceInner::drop: fetch_or(CONNECTION_BIT); the second of the two to arrive
\* releases the OnceInner.
OnceInner_drop ==
    /\ once_state' = once_state \cup {CONNECTION_BIT}
    /\ once_freed' = (CONNECTION_BIT \in once_state)

\* send(v), one step at a time.
send_lock ==
    /\ once_spc = "lock" /\ once_lock = "free"
    /\ once_lock' = "sender" /\ once_spc' = "store"
    /\ UNCHANGED <<once_value, once_thread, once_state, once_freed, once_sent, once_local,
                   once_rpc, once_token, once_ret, once_parks>>
    /\ OnceRest

send_store ==
    /\ once_spc = "store"
    /\ once_value' = <<"Some", once_sent>> /\ once_spc' = "take"
    /\ UNCHANGED <<once_lock, once_thread, once_state, once_freed, once_sent, once_local,
                   once_rpc, once_token, once_ret, once_parks>>
    /\ OnceRest

\* A send that leaves the registered thread where it is.
send_take_thread_skipped ==
    /\ once_spc = "take"
    /\ once_spc' = "unlock"
    /\ UNCHANGED <<once_lock, once_value, once_thread, once_local, once_state, once_freed,
                   once_sent, once_rpc, once_token, once_ret, once_parks>>
    /\ OnceRest

send_take_thread ==
    /\ once_spc = "take"
    /\ once_local' = once_thread /\ once_thread' = <<"None">> /\ once_spc' = "unlock"
    /\ UNCHANGED <<once_lock, once_value, once_state, once_freed, once_sent,
                   once_rpc, once_token, once_ret, once_parks>>
    /\ OnceRest

send_unlock ==
    /\ once_spc = "unlock"
    /\ once_lock' = "free" /\ once_spc' = "unpark"
    /\ UNCHANGED <<once_value, once_thread, once_state, once_freed, once_sent, once_local,
                   once_rpc, once_token, once_ret, once_parks>>
    /\ OnceRest

\* thread.map(|thread| thread.unpark())
send_unpark ==
    /\ once_spc = "unpark"
    /\ once_token' = (once_token \/ once_local = <<"Some", "receiver">>)
    /\ once_spc' = "drop"
    /\ UNCHANGED <<once_lock, once_value, once_thread, once_state, once_freed, once_sent,
                   once_local, once_rpc, once_ret, once_parks>>
    /\ OnceRest

\* Drop for OnceSender, as send(self, ..) returns.
send_drop ==
    /\ once_spc = "drop"
    /\ OnceInner_drop
    /\ once_spc' = "done"
    /\ UNCHANGED <<once_lock, once_value, once_thread, once_sent, once_local,
                   once_rpc, once_token, once_ret, once_parks>>
    /\ OnceRest

\* recv(), one step at a time.
recv_lock ==
    /\ once_rpc = "lock" /\ once_lock = "free"
    /\ once_lock' = "receiver" /\ once_rpc' = "take"
    /\ UNCHANGED <<once_value, once_thread, once_state, once_freed, once_spc, once_sent,
                   once_local, once_token, once_ret, once_parks>>
    /\ OnceRest

\* value.take(); with Some(value) recv returns it, the lock still held.
recv_take ==
    /\ once_rpc = "take"
    /\ once_value' = <<"None">>
    /\ IF once_value[1] = "Some"
       THEN once_ret' = once_value /\ once_rpc' = "drop"
       ELSE once_ret' = once_ret /\ once_rpc' = "register"
    /\ UNCHANGED <<once_lock, once_thread, once_state, once_freed, once_spc, once_sent,
                   once_local, once_token, once_parks>>
    /\ OnceRest

recv_register ==
    /\ once_rpc = "register"
    /\ once_thread' = <<"Some", "receiver">> /\ once_rpc' = "unlock"
    /\ UNCHANGED <<once_lock, once_value, once_state, once_freed, once_spc, once_sent,
                   once_local, once_token, once_ret, once_parks>>
    /\ OnceRest

recv_unlock ==
    /\ once_rpc = "unlock"
    /\ once_lock' = "free" /\ once_rpc' = "park"
    /\ UNCHANGED <<once_value, once_thread, once_state, once_freed, once_spc, once_sent,
                   once_local, once_token, once_ret, once_parks>>
    /\ OnceRest

\* thread::park() returns when the token is there, and consumes it.
recv_park ==
    /\ once_rpc = "park" /\ once_token
    /\ once_token' = FALSE /\ once_rpc' = "lock"
    /\ once_parks' = <<Min(once_parks[1] + 1, 2), once_parks[2]>>
    /\ UNCHANGED <<once_lock, once_value, once_thread, once_state, once_freed, once_spc,
                   once_sent, once_local, once_ret>>
    /\ OnceRest

\* thread::park() may also return for no reason.
recv_park_spurious ==
    /\ once_rpc = "park" /\ ~once_token /\ once_parks[2] < OnceSpurious
    /\ once_rpc' = "lock"
    /\ once_parks' = <<once_parks[1], once_parks[2] + 1>>
    /\ UNCHANGED <<once_lock, once_value, once_thread, once_state, once_freed, once_spc,
                   once_sent, once_local, once_token, once_ret>>
    /\ OnceRest

\* Drop for OnceReceiver, as recv(self) returns.
recv_drop ==
    /\ once_rpc = "drop"
    /\ OnceInner_drop
    /\ once_rpc' = "done"
    /\ UNCHANGED <<once_lock, once_value, once_thread, once_spc, once_sent, once_local,
                   once_token, once_ret, once_parks>>
    /\ OnceRest

OnceSend == send_lock \/ send_store \/ send_take_thread \/ send_unlock \/ send_unpark \/ send_drop
OnceRecv == recv_lock \/ recv_take \/ recv_register \/ recv_unlock \/ recv_park \/ recv_drop

OnceNext == OnceSend \/ OnceRecv \/ recv_park_spurious

SpecOnce == OnceInit /\ [][OnceNext]_vars

\* Both threads are scheduled again and again; a spurious return of park is
\* never owed.
SpecOnceFair == SpecOnce /\ WF_vars(OnceSend) /\ WF_vars(OnceRecv)

\* --------------------------------------------------------------- spsc::swap
\* swap(capacity): one SwapInner behind an Arc that the sender and the receiver
\* each hold.
SwapInit ==
    /\ VecIdle /\ DequeIdle /\ HeapIdle /\ EqIdle /\ IterIdle /\ OnceIdle /\ AppendIdle /\ SearchIdle /\ PoolIdle
    /\ swap_count = 2
    /\ swap_inner = <<>>
    /\ swap_lock = "free"
    /\ swap_local = <<>>
    /\ swap_spc = "idle"
    /\ swap_next = 1
    /\ swap_rpc = "idle"
    /\ swap_call = "none"
    /\ swap_gone = FALSE
    /\ swap_ret = <<"Unit">>

SwapRest == UNCHANGED <<vvars, dvars, hvars, evars, ivars, ovars, avars, bvars, pvars>>

swap_disconnected == swap_count = 1

\* Vec::pop takes the last element.
Vec_pop(q) ==
    IF q = <<>> THEN [q |-> q, ret |-> <<"None">>]
    ELSE [q |-> SubSeq(q, 1, Len(q) - 1), ret |-> <<"Some", q[Len(q)]>>]

\* SwapSender::send(value), one step at a time.
swap_send_check ==
    /\ swap_spc = "idle" /\ swap_next <= SwapVals
    /\ swap_spc' = IF swap_disconnected THEN "idle" ELSE "lock"
    /\ swap_next' = IF swap_disconnected THEN swap_next + 1 ELSE swap_next
    /\ UNCHANGED <<swap_count, swap_inner, swap_lock, swap_local, swap_rpc, swap_call,
                   swap_gone, swap_ret>>
    /\ SwapRest

swap_send_lock ==
    /\ swap_spc = "lock" /\ swap_lock = "free"
    /\ swap_lock' = "sender" /\ swap_spc' = "push"
    /\ UNCHANGED <<swap_count, swap_inner, swap_local, swap_next, swap_rpc, swap_call,
                   swap_gone, swap_ret>>
    /\ SwapRest

\* buf.push(value); condvar.notify_one() wakes the receiver if it waits.
swap_send_push ==
    /\ swap_spc = "push"
    /\ swap_inner' = Append(swap_inner, swap_next)
    /\ swap_next' = swap_next + 1
    /\ swap_rpc' = IF swap_rpc = "waiting" THEN "woken" ELSE swap_rpc
    /\ swap_spc' = "unlock"
    /\ UNCHANGED <<swap_count, swap_lock, swap_local, swap_call, swap_gone, swap_ret>>
    /\ SwapRest

swap_send_unlock ==
    /\ swap_spc = "unlock"
    /\ swap_lock' = "free" /\ swap_spc' = "idle"
    /\ UNCHANGED <<swap_count, swap_inner, swap_local, swap_next, swap_rpc, swap_call,
                   swap_gone, swap_ret>>
    /\ SwapRest

\* The sender is dropped: SwapSender has no Drop of its own, its Arc is released.
swap_sender_drop ==
    /\ swap_spc = "idle"
    /\ swap_count' = swap_count - 1 /\ swap_spc' = "dropped"
    /\ UNCHANGED <<swap_inner, swap_lock, swap_local, swap_next, swap_rpc, swap_call,
                   swap_gone, swap_ret>>
    /\ SwapRest

\* recv() / try_recv(): an element of the local buf is returned at once,
\* otherwise swap_buf / try_swap_buf is entered.
swap_recv_call(call) ==
    /\ swap_rpc = "idle"
    /\ swap_call' = call
    /\ swap_gone' = (swap_spc = "dropped")
    /\ swap_local' = Vec_pop(swap_local).q
    /\ IF Vec_pop(swap_local).ret[1] = "Some"
       THEN swap_ret' = <<"Ok", Vec_pop(swap_local).ret[2]>> /\ swap_rpc' = "idle"
       ELSE swap_ret' = <<"Pending">> /\ swap_rpc' = "check"
    /\ UNCHANGED <<swap_count, swap_inner, swap_lock, swap_spc, swap_next>>
    /\ SwapRest

swap_recv == swap_recv_call("recv")
swap_try_recv == swap_recv_call("try_recv")

\* if self.disconnected() { return Err(Disconnected) }
swap_buf_check ==
    /\ swap_rpc = "check"
    /\ IF swap_disconnected
       THEN swap_ret' = <<"Err", "Disconnected">> /\ swap_rpc' = "idle"
       ELSE swap_ret' = swap_ret /\ swap_rpc' = "lock"
    /\ UNCHANGED <<swap_count, swap_inner, swap_lock, swap_local, swap_spc, swap_next,
                   swap_call, swap_gone>>
    /\ SwapRest

\* inner.buf.lock(), also when a wait re-acquires the lock after a notify.
swap_buf_lock ==
    /\ swap_rpc \in {"lock", "woken"} /\ swap_lock = "free"
    /\ swap_lock' = "receiver" /\ swap_rpc' = "locked"
    /\ UNCHANGED <<swap_count, swap_inner, swap_local, swap_spc, swap_next, swap_call,
                   swap_gone, swap_ret>>
    /\ SwapRest

\* swap_buf: condvar.wait_while(&mut buf, |buf| buf.is_empty()) releases the
\* lock and waits for a notify while the shared buf is empty.
swap_buf_wait ==
    /\ swap_rpc = "locked" /\ swap_call = "recv" /\ swap_inner = <<>>
    /\ swap_lock' = "free" /\ swap_rpc' = "waiting"
    /\ UNCHANGED <<swap_count, swap_inner, swap_local, swap_spc, swap_next, swap_call,
                   swap_gone, swap_ret>>
    /\ SwapRest

\* try_swap_buf: if buf.is_empty() { return Err(Empty) }
try_swap_buf_empty ==
    /\ swap_rpc = "locked" /\ swap_call = "try_recv" /\ swap_inner = <<>>
    /\ swap_lock' = "free" /\ swap_rpc' = "idle" /\ swap_ret' = <<"Err", "Empty">>
    /\ UNCHANGED <<swap_count, swap_inner, swap_local, swap_spc, swap_next, swap_call,
                   swap_gone>>
    /\ SwapRest

\* mem::swap(&mut self.buf, &mut *buf), the guard is released, and the caller
\* pops the element it returns.
swap_buf_swap ==
    /\ swap_rpc = "locked" /\ swap_inner # <<>>
    /\ swap_inner' = swap_local
    /\ swap_local' = Vec_pop(swap_inner).q
    /\ swap_ret' = <<"Ok", Vec_pop(swap_inner).ret[2]>>
    /\ swap_lock' = "free" /\ swap_rpc' = "idle"
    /\ UNCHANGED <<swap_count, swap_spc, swap_next, swap_call, swap_gone>>
    /\ SwapRest

SwapSend == swap_send_check \/ swap_send_lock \/ swap_send_push \/ swap_send_unlock
SwapRecv == swap_buf_check \/ swap_buf_lock \/ swap_buf_wait \/ try_swap_buf_empty \/ swap_buf_swap

SwapNext == SwapSend \/ swap_sender_drop \/ swap_recv \/ swap_try_recv \/ SwapRecv

SpecSwap == SwapInit /\ [][SwapNext]_vars

\* A call that has begun goes on: both threads keep being scheduled.  When the
\* sender is dropped and which call the receiver makes next is up to the program.
SpecSwapFair == SpecSwap /\ WF_vars(SwapSend) /\ WF_vars(SwapRecv)

\* ------------------------------------------------------- wrap_copy alone
\* A full deque whose slot i holds the value i + 1, and one wrap_copy on it
\* with any src, dst and len its debug assertion accepts.
WrapInit ==
    /\ RestIdle
    /\ VecIdle
    /\ HeapIdle
    /\ dcap \in {WrapCap - 1, WrapCap}
    /\ dbuf = [i \in 0..(dcap - 1) |-> i + 1]
    /\ dhead = 0
    /\ dlen = dcap
    /\ dok = TRUE
    /\ dnext = dcap + 1
    /\ dop = "new"
    /\ dret = <<"Unit">>
    /\ dout = [id \in 1..WrapCap |-> 0]
    /\ dleaked = {}
    /\ drain = NoDrain
    /\ dorig = <<>>
    /\ dyield = <<>>
    /\ dmode = "wrap_copy"

WrapAccepted(src, dst, len) ==
    Min(AbsDiff(src, dst), dcap - AbsDiff(src, dst)) + len <= dcap

DWrapCopy ==
    /\ dmode = "wrap_copy" /\ dop = "new"
    /\ \E src \in 0..(dcap - 1), dst \in 0..(dcap - 1), len \in 0..dcap :
          /\ WrapAccepted(src, dst, len)
          /\ dbuf' = wrap_copy(TheDeque, src, dst, len).buf
          /\ dok' = wrap_copy(TheDeque, src, dst, len).ok
          /\ dret' = <<"Copied", src, dst, len>>
    /\ dop' = "wrap_copy"
    /\ UNCHANGED <<dcap, dhead, dlen, dnext, dout, dleaked, drain, dorig, dyield, dmode>>
    /\ UNCHANGED <<vvars, hvars, xvars>>

WrapNext == DWrapCopy

SpecWrap == WrapInit /\ [][WrapNext]_vars

\* ------------------------------------------------------------ rotation alone
\* A deque in any state of head and len, rotated again and again.
RotateInit ==
    /\ RestIdle
    /\ VecIdle
    /\ HeapIdle
    /\ \E d \in DequesUpTo(RotateCap) :
          /\ dcap = d.cap /\ dbuf = d.buf /\ dhead = d.head /\ dlen = d.len /\ dok = d.ok
          /\ dnext = d.len + 1
    /\ dop = "new"
    /\ dret = <<"Unit">>
    /\ dout = [id \in 1..RingVals |-> 0]
    /\ dleaked = {}
    /\ drain = NoDrain
    /\ dorig = <<>>
    /\ dyield = <<>>
    /\ dmode = "rotate"

RotateNext == DRotateLeft \/ DRotateRight

SpecRotate == RotateInit /\ [][RotateNext]_vars

BoundsInit == DequeStart({DequeCap}, "bounds")

BoundsNext ==
    \/ DPushBack \/ DPushFront \/ DPopFront
    \/ DGet \/ DSwap \/ DRemove \/ DSwapRemoveFront \/ DSwapRemoveBack
    \/ DRotateLeft \/ DRotateRight
    \/ DRange \/ DRangeMut \/ DDrainRejected

SpecBounds == BoundsInit /\ [][BoundsNext]_vars

\* ------------------------------------------------- InplaceDeque: properties
\* The deque as the sequence of its elements, front to back: element i is in
\* slot (head + i) mod N.
Logical == [i \in 1..dlen |-> dbuf[(dhead + i - 1) % dcap]]

\* The number of values that left the deque.
Pops == Cardinality({id \in DVals : dout[id] > 0})

\* C5: used as a queue (push_back with pop_front, or the mirror pair push_front
\* with pop_back), the k-th successful pop returns the k-th accepted value,
\* len() is accepted pushes minus successful pops and never exceeds N, a push
\* at len = N hands the value back and changes nothing, and a pop at len = 0
\* returns None.
C5_QueueOrder ==
    [][/\ (DPushBack \/ DPushFront) =>
             IF dlen = dcap
             THEN dret' = <<"Err", dnext>> /\ dnext' = dnext /\ dlen' = dlen
                  /\ Logical' = Logical
             ELSE dret' = <<"Ok">> /\ dnext' = dnext + 1
       /\ (DPopFront \/ DPopBack) =>
             IF dlen = 0
             THEN dret' = <<"None">> /\ dout' = dout
             ELSE dret' = <<"Some", Pops + 1>> /\ Pops' = Pops + 1
       /\ RingNext => dlen' = (dnext' - 1) - Pops' /\ dlen' <= dcap]_vars

\* A pop_front after head has wrapped past N more than once.
C5_Witness ==
    /\ dmode = "back_front" /\ dop = "pop_front" /\ dcap >= 2
    /\ dret[1] = "Some" /\ dret[2] > 2 * dcap

\* C6: whenever no Drain is outstanding, 0 <= head < N (head = 0 when N = 0),
\* len <= N, and the live slots are exactly the slots (head + i) mod N for
\* 0 <= i < len: each value the deque accepted is either in exactly one of
\* these slots or has left the deque exactly once.
C6_RingInvariant ==
    drain = NoDrain =>
        /\ dok
        /\ IF dcap = 0 THEN dhead = 0 ELSE dhead \in 0..(dcap - 1)
        /\ dlen \in 0..dcap
        /\ \A i \in 1..dlen : Logical[i] # Uninit
        /\ \A id \in 1..(dnext - 1) :
              Occ(Logical, id) + dout[id] + (IF id \in dleaked THEN 1 ELSE 0) = 1

\* A drain's cleanup has run and left a deque that wraps around the buffer's end.
C6_Witness ==
    /\ dop = "drain_drop" /\ drain = NoDrain
    /\ dhead + dlen > dcap /\ dlen >= 2 /\ dorig.end > dorig.start

\* C7: drain(s..e) yields the elements at positions s..e-1 of the original deque
\* in order (from the back: in reverse), and once the Drain is dropped, however
\* much of it was consumed, the deque is the original one without positions
\* [s, e) and its len is the old len minus (e - s).
C7_DrainContract ==
    [][/\ drain' # NoDrain =>
             /\ dyield'[1] = SubSeq(dorig'.seq, dorig'.start + 1,
                                    dorig'.start + Len(dyield'[1]))
             /\ \A j \in 1..Len(dyield'[2]) :
                   dyield'[2][j] = dorig'.seq[dorig'.end - j + 1]
             /\ Len(dyield'[1]) + Len(dyield'[2]) <= dorig'.end - dorig'.start
       /\ (DDrainNext \/ DDrainNextBack) =>
             (dret' = <<"None">>
                <=> Len(dyield[1]) + Len(dyield[2]) = dorig.end - dorig.start)
       /\ DDrainDrop =>
             /\ Logical' = SubSeq(dorig.seq, 1, dorig.start)
                             \o SubSeq(dorig.seq, dorig.end + 1, Len(dorig.seq))
             /\ dlen' = Len(dorig.seq) - (dorig.end - dorig.start)
             /\ \A j \in (dorig.start + 1)..dorig.end : dout'[dorig.seq[j]] = 1]_vars

\* A Drain of a middle range with more elements behind it than before it was
\* dropped after it was consumed in part, over a deque that wrapped.
C7_Witness ==
    /\ dop = "drain_drop"
    /\ dorig.start >= 1 /\ Len(dorig.seq) - dorig.end > dorig.start
    /\ dorig.head + Len(dorig.seq) > dcap
    /\ Len(dyield[1]) = 1 /\ dorig.end - dorig.start = 2

\* C8: from the moment drain() returns until the Drain's cleanup runs, len is s;
\* if the Drain is forgotten, the deque is the original positions [0, s) with
\* head unchanged, and no element of [s, old len) is reachable through it.
C8_DrainLeak ==
    [][/\ drain' # NoDrain => dlen' = dorig'.start /\ dhead' = dorig'.head
       /\ DDrainForget =>
             /\ dlen' = dorig.start
             /\ dhead' = dorig.head
             /\ Logical' = SubSeq(dorig.seq, 1, dorig.start)
             /\ \A j \in (dorig.start + 1)..Len(dorig.seq) :
                   Occ(Logical', dorig.seq[j]) = 0]_vars

\* A Drain of a middle range was forgotten after it yielded one element.
C8_Witness ==
    /\ dop = "drain_forget"
    /\ dorig.start >= 1 /\ dorig.end < Len(dorig.seq)
    /\ dorig.end - dorig.start >= 2 /\ Len(dyield[1]) = 1

\* C9: make_contiguous returns one slice that is the concatenation of the two
\* slices as_slices gave before the call, which is the forward iteration order;
\* len and the sequence are unchanged, and afterwards head + len <= N, so that
\* the second slice of as_slices is empty.
C9_MakeContiguous ==
    [][DMakeContiguous =>
          /\ dret'[2] = deque_as_slices(TheDeque)[1] \o deque_as_slices(TheDeque)[2]
          /\ dret'[2] = deque_iter(TheDeque)
          /\ dret'[2] = Logical
          /\ dlen' = dlen
          /\ Logical' = Logical
          /\ deque_iter(TheDeque') = deque_iter(TheDeque)
          /\ dhead' + dlen' <= dcap
          /\ deque_as_slices(TheDeque')[2] = <<>>
          /\ dok']_vars

\* make_contiguous took the rotate strategy with free slots left.
C9_Witness ==
    /\ dop = "make_contiguous" /\ dret[3] = "rotate_right" /\ dlen < dcap

\* C10: make_contiguous called again right after make_contiguous changes neither
\* head nor any storage slot, and returns the same slice.
C10_MakeContiguousTwice ==
    [][(dop = "make_contiguous" /\ DMakeContiguous) =>
          dhead' = dhead /\ dbuf' = dbuf /\ dlen' = dlen /\ dret'[2] = dret[2]]_vars

\* The second of two calls in a row, on a deque that ends at the buffer's last slot.
C10_Witness ==
    /\ dop = "make_contiguous" /\ dret[4] /\ dhead > 0 /\ dlen >= 2
    /\ dhead + dlen = dcap

\* ------------------------------------------------------------ InplaceHeap
\* The heap's data is an InplaceVec<T, N> with the heap's own N: the number of
\* slots of its buffer.  Its elements are keys compared by Ord; equal keys may
\* occur more than once.
data_capacity(data) == Cardinality(DOMAIN data.buf)

data_new(cap) == Vec([i \in 0..(cap - 1) |-> Uninit], 0)

data_is_full(data) == data.len = data_capacity(data)

data_push(data, value) ==
    IF data_is_full(data)
    THEN Outcome(data, <<"Err", value>>, <<>>)
    ELSE Outcome(Vec([data.buf EXCEPT ![data.len] = value], data.len + 1), <<"Ok">>, <<>>)

data_append(data, other) ==
    IF other.len > data_capacity(data) - data.len
    THEN [v |-> data, other |-> other, ret |-> <<"Err">>]
    ELSE LET count == other.len
         IN [v |-> Vec([i \in DOMAIN data.buf |->
                           IF data.len <= i /\ i < data.len + count
                           THEN other.buf[i - data.len] ELSE data.buf[i]],
                       data.len + count),
             other |-> Vec(other.buf, 0),
             ret |-> <<"Ok">>]

data_from_iter(cap, items) ==
    LET z == zip_write(data_new(cap).buf, 0, items)
    IN Vec(z.buf, z.count)

\* set_len: debug_assert!(new_len < self.capacity()) comes first.  A build with
\* debug assertions panics before len is written when new_len = capacity.
set_len(data, new_len, build) ==
    IF build = "debug" /\ ~(new_len < data_capacity(data))
    THEN [v |-> data, panic |-> TRUE]
    ELSE [v |-> Vec(data.buf, new_len), panic |-> FALSE]

\* Hole: the element at pos is lifted out of data; move_to copies the element at
\* index into the hole and makes index the hole; dropping the Hole writes the
\* lifted element into the hole.
Hole_new(data, pos) == [data |-> data, elt |-> data.buf[pos], pos |-> pos]
Hole_element(hole) == hole.elt
Hole_get(hole, index) == hole.data.buf[index]
Hole_move_to(hole, index) ==
    [hole EXCEPT !.data.buf[hole.pos] = hole.data.buf[index], !.pos = index]
Hole_drop(hole) == Vec([hole.data.buf EXCEPT ![hole.pos] = hole.elt], hole.data.len)

saturating_sub(a, b) == IF a >= b THEN a - b ELSE 0

RECURSIVE sift_up_loop(_, _)
sift_up_loop(hole, start) ==
    IF hole.pos > start
    THEN LET parent == (hole.pos - 1) \div 2
         IN IF Hole_element(hole) <= Hole_get(hole, parent) THEN hole
            ELSE sift_up_loop(Hole_move_to(hole, parent), start)
    ELSE hole

\* sift_up, sift_down_range and sift_down return <<data, the new position>>.
sift_up(data, start, pos) ==
    LET hole == sift_up_loop(Hole_new(data, pos), start)
    IN <<Hole_drop(hole), hole.pos>>

\* The loop of sift_down_range: [hole, child, returned].
RECURSIVE sift_down_range_loop(_, _, _)
sift_down_range_loop(hole, child, end) ==
    IF child <= saturating_sub(end, 2)
    THEN LET c == child + (IF Hole_get(hole, child) <= Hole_get(hole, child + 1)
                           THEN 1 ELSE 0)
         IN IF Hole_element(hole) >= Hole_get(hole, c)
            THEN [hole |-> hole, child |-> c, returned |-> TRUE]
            ELSE LET h1 == Hole_move_to(hole, c)
                 IN sift_down_range_loop(h1, 2 * h1.pos + 1, end)
    ELSE [hole |-> hole, child |-> child, returned |-> FALSE]

\* The final step to a single child left out.
sift_down_range_short(data, pos, end) ==
    LET r == sift_down_range_loop(Hole_new(data, pos), 2 * pos + 1, end)
    IN <<Hole_drop(r.hole), r.hole.pos>>

sift_down_range(data, pos, end) ==
    LET r == sift_down_range_loop(Hole_new(data, pos), 2 * pos + 1, end)
        hole == IF ~r.returned /\ r.child = end - 1
                   /\ Hole_element(r.hole) < Hole_get(r.hole, r.child)
                THEN Hole_move_to(r.hole, r.child)
                ELSE r.hole
    IN <<Hole_drop(hole), hole.pos>>

sift_down(data, pos) == sift_down_range(data, pos, data.len)

RECURSIVE sift_down_to_bottom_loop(_, _, _)
sift_down_to_bottom_loop(hole, child, end) ==
    IF child <= saturating_sub(end, 2)
    THEN LET c == child + (IF Hole_get(hole, child) <= Hole_get(hole, child + 1)
                           THEN 1 ELSE 0)
             h1 == Hole_move_to(hole, c)
         IN sift_down_to_bottom_loop(h1, 2 * h1.pos + 1, end)
    ELSE [hole |-> hole, child |-> child]

\* The element stays where it is.
sift_down_to_bottom_stay(data, pos) == data

\* sift_down_to_bottom returns the data.
sift_down_to_bottom(data, pos) ==
    LET end == data.len
        start == pos
        r == sift_down_to_bottom_loop(Hole_new(data, pos), 2 * pos + 1, end)
        hole == IF r.child = end - 1 THEN Hole_move_to(r.hole, r.child) ELSE r.hole
    IN sift_up(Hole_drop(hole), start, hole.pos)[1]

\* The loop of rebuild; n - 1 < len is what its call of sift_down relies on.
RECURSIVE rebuild_loop(_, _)
rebuild_loop(data, n) ==
    IF n > 0 /\ n - 1 < data.len THEN rebuild_loop(sift_down(data, n - 1)[1], n - 1) ELSE data

rebuild(data) == rebuild_loop(data, data.len \div 2)

RECURSIVE log2_fast(_)
log2_fast(x) == IF x <= 1 THEN 0 ELSE 1 + log2_fast(x \div 2)

RECURSIVE sift_up_each(_, _)
sift_up_each(data, i) ==
    IF i < data.len THEN sift_up_each(sift_up(data, 0, i)[1], i + 1) ELSE data

rebuild_tail_skipped(data, start) == data
rebuild_tail(data, start) ==
    IF start = data.len THEN data
    ELSE LET tail_len == data.len - start
             better_to_rebuild ==
                 IF start < tail_len THEN TRUE
                 ELSE IF data.len <= 2048
                      THEN 2 * data.len < tail_len * log2_fast(start)
                      ELSE 2 * data.len < tail_len * 11
         IN IF better_to_rebuild THEN rebuild(data) ELSE sift_up_each(data, start)

heap_new(cap) == data_new(cap)
heap_is_empty(data) == vec_is_empty(data)
heap_len(data) == data.len

heap_peek(data) == IF data.len = 0 THEN <<"None">> ELSE <<"Some", data.buf[0]>>

\* pop: mem::swap(&mut item, &mut self.data[0]), then sift_down_to_bottom(0).
heap_pop(data) ==
    LET o == vec_pop(data)
    IN IF o.ret[1] = "None" THEN o
       ELSE IF ~heap_is_empty(o.v)
            THEN LET item == o.ret[2]
                     swapped == Vec([o.v.buf EXCEPT ![0] = item], o.v.len)
                 IN Outcome(sift_down_to_bottom(swapped, 0), <<"Some", o.v.buf[0]>>, <<>>)
            ELSE o

heap_push(data, item) ==
    LET old_len == heap_len(data)
        o == data_push(data, item)
    IN IF o.ret[1] = "Err" THEN o
       ELSE Outcome(sift_up(o.v, 0, old_len)[1], <<"Ok">>, <<>>)

\* append: the two heaps change places first when self is the shorter one, and
\* stay so when data.append fails.
heap_append(data, other) ==
    LET swap == heap_len(data) < heap_len(other)
        self1 == IF swap THEN other ELSE data
        other1 == IF swap THEN data ELSE other
        start == self1.len
        r == data_append(self1, other1)
    IN IF r.ret[1] = "Err" THEN r
       ELSE [r EXCEPT !.v = rebuild_tail(r.v, start)]

\* Every key but trap.
HeapKeysBut(trap) == (1..RetainVals) \ {trap}

\* The index of the first element the predicate rejects, or len.
RECURSIVE first_rejected(_, _, _)
first_rejected(data, f, i) ==
    IF i = data.len \/ data.buf[i] \notin f THEN i ELSE first_rejected(data, f, i + 1)

\* Drop for RebuildOnDrop.
RebuildOnDrop_forgotten(data, rebuild_from) == data
RebuildOnDrop_drop(data, rebuild_from) == rebuild_tail(data, rebuild_from)

\* retain with a predicate that panics on the key trap: rebuild_from is the
\* index of the first element the predicate rejected before it panicked, or the
\* old len; the guard rebuilds the tail from there, at the end or while the
\* panic unwinds.
heap_retain_unwinding(data, f, trap) ==
    LET examined == first_rejected(data, HeapKeysBut(trap), 0)
        rejected == first_rejected(data, f, 0)
        rebuild_from == IF rejected < examined THEN rejected ELSE heap_len(data)
        o == vec_retain_mut_unwinding(data, f, trap, Uninit)
    IN Outcome(RebuildOnDrop_drop(o.v, rebuild_from), o.ret, o.drops)

\* retain: RebuildOnDrop rebuilds the tail from the first rejected element on.
heap_retain(data, f) ==
    LET rebuild_from == first_rejected(data, f, 0)
        o == vec_retain_mut(data, f)
    IN Outcome(rebuild_tail(o.v, rebuild_from), <<"Unit">>, o.drops)

heap_from_vec(value) == rebuild(value)
heap_from_iter(cap, items) == heap_from_vec(data_from_iter(cap, items))

\* PeekMut: original_len is 0 for None.
PeekMut(original_len) == [original_len |-> original_len]

heap_peek_mut(data) == IF heap_is_empty(data) THEN <<"None">> ELSE <<"Some", PeekMut(0)>>

\* The length is recorded but not shrunk.
PeekMut_deref_mut_keep_len(data, guard, build) ==
    IF heap_len(data) > 1 THEN <<data, PeekMut(heap_len(data))>> ELSE <<data, guard>>

\* deref_mut returns <<data, guard>>.
PeekMut_deref_mut(data, guard, build) ==
    LET len == heap_len(data)
    IN IF len > 1
       THEN <<set_len(data, 1, build).v, PeekMut(len)>>
       ELSE <<data, guard>>

\* Drop for PeekMut and PeekMut::pop return an outcome; ret is <<"Panic">> when
\* set_len's assertion failed.
PeekMut_drop(data, guard, build) ==
    IF guard.original_len # 0
    THEN LET r == set_len(data, guard.original_len, build)
         IN IF r.panic THEN Outcome(r.v, <<"Panic">>, <<>>)
            ELSE Outcome(sift_down(r.v, 0)[1], <<"Unit">>, <<>>)
    ELSE Outcome(data, <<"Unit">>, <<>>)

PeekMut_pop(data, guard, build) ==
    IF guard.original_len # 0
    THEN LET r == set_len(data, guard.original_len, build)
         IN IF r.panic THEN Outcome(r.v, <<"Panic">>, <<>>)
            ELSE heap_pop(r.v)
    ELSE heap_pop(data)

\* ---------------------------------------------------- InplaceHeap: actions
HVals == 1..HeapVals
NoGuard == <<>>

TheHeap == Vec(hbuf, hlen)

\* The sequences of at most n keys.
KeySeqs(n) == UNION {[1..m -> HVals] : m \in 0..n}

HeapInit ==
    /\ RestIdle
    /\ VecIdle
    /\ DequeIdle
    /\ hcap = HeapCap
    /\ hbuf = heap_new(hcap).buf
    /\ hlen = 0
    /\ hbuild \in {"debug", "release"}
    /\ hguard = NoGuard
    /\ hpeeked = 0
    /\ hop = "new"
    /\ hret = <<"Unit">>

\* The call `call` on the heap itself returned ret and left data.
HDone(call, data, ret) ==
    /\ hguard = NoGuard
    /\ hbuf' = data.buf
    /\ hlen' = data.len
    /\ hop' = call
    /\ hret' = ret
    /\ UNCHANGED <<hcap, hbuild, hguard, hpeeked>>
    /\ UNCHANGED <<vvars, dvars, xvars>>

HPush ==
    \E item \in HVals :
        LET o == heap_push(TheHeap, item) IN HDone("push", o.v, o.ret)

HPop == LET o == heap_pop(TheHeap) IN HDone("pop", o.v, o.ret)

\* other is collected from a sequence of keys, appended, and dropped afterwards.
HAppend ==
    \E items \in KeySeqs(2) :
        LET r == heap_append(TheHeap, heap_from_iter(hcap, items))
        IN HDone("append", r.v, r.ret)

HRetain ==
    \E f \in SUBSET HVals :
        LET o == heap_retain(TheHeap, f) IN HDone("retain", o.v, o.ret)

\* Instead of new(), the heap is collected from a sequence of keys.
HFromIter ==
    /\ hop = "new"
    /\ \E items \in KeySeqs(hcap + 1) :
          HDone("from_iter", heap_from_iter(hcap, items), <<"Unit">>)

\* Instead of new(), the heap is made from an array of N keys.
HFromArray ==
    /\ hop = "new"
    /\ \E items \in [1..hcap -> HVals] :
          HDone("from_array", heap_from_vec(data_from_iter(hcap, items)), <<"Unit">>)

HPeekMut ==
    /\ hguard = NoGuard
    /\ LET r == heap_peek_mut(TheHeap)
       IN /\ hguard' = IF r[1] = "Some" THEN r[2] ELSE NoGuard
          /\ hpeeked' = IF r[1] = "Some" THEN hbuf[0] ELSE 0
          /\ hret' = <<r[1]>>
    /\ hop' = "peek_mut"
    /\ UNCHANGED <<hcap, hbuf, hlen, hbuild>>
    /\ UNCHANGED <<vvars, dvars, xvars>>

\* Deref: the caller reads the root through the guard.
HDeref ==
    /\ hguard # NoGuard
    /\ hop' = "deref"
    /\ hret' = <<"Ref", hbuf[0]>>
    /\ UNCHANGED <<hcap, hbuf, hlen, hbuild, hguard, hpeeked>>
    /\ UNCHANGED <<vvars, dvars, xvars>>

\* DerefMut: the caller takes &mut T from the guard and stores key in the root.
HDerefMutTo(key) ==
    /\ hguard # NoGuard
    /\ LET r == PeekMut_deref_mut(TheHeap, hguard, hbuild)
       IN /\ hbuf' = [r[1].buf EXCEPT ![0] = key]
          /\ hlen' = r[1].len
          /\ hguard' = r[2]
    /\ hop' = "deref_mut"
    /\ hret' = <<"RefMut">>
    /\ UNCHANGED <<hcap, hbuild, hpeeked>>
    /\ UNCHANGED <<vvars, dvars, xvars>>

HDerefMut == \E key \in HVals : HDerefMutTo(key)

\* The guard goes away by the call `call`, which returned ret and left data.
HGuardDone(call, data, ret) ==
    /\ hguard # NoGuard
    /\ hbuf' = data.buf
    /\ hlen' = data.len
    /\ hguard' = NoGuard
    /\ hop' = call
    /\ hret' = ret
    /\ UNCHANGED <<hcap, hbuild, hpeeked>>
    /\ UNCHANGED <<vvars, dvars, xvars>>

HPeekDrop ==
    LET o == PeekMut_drop(TheHeap, hguard, hbuild) IN HGuardDone("peek_drop", o.v, o.ret)

HPeekPop ==
    LET o == PeekMut_pop(TheHeap, hguard, hbuild) IN HGuardDone("peek_pop", o.v, o.ret)

\* mem::forget(guard): Drop for PeekMut never runs.
HPeekForget == HGuardDone("peek_forget", TheHeap, <<"Unit">>)

HeapNext ==
    \/ HPush \/ HPop \/ HAppend \/ HRetain \/ HFromIter \/ HFromArray
    \/ HPeekMut \/ HDeref \/ HDerefMut \/ HPeekDrop \/ HPeekPop \/ HPeekForget

SpecHeap == HeapInit /\ [][HeapNext]_vars

\* ------------------------------------------- collecting, and panics unwinding
UVals == 1..UnwindVals

\* The sources collected: 1, 2, ..., m.
Sources == {[i \in 1..m |-> i] : m \in 0..UnwindVals}

UnwindVecInit ==
    /\ RestIdle
    /\ DequeIdle
    /\ HeapIdle
    /\ vbuf = data_new(UnwindCap).buf
    /\ vlen = 0
    /\ vstate = "live"
    /\ vnext = 1
    /\ vop = "new"
    /\ vret = <<"Unit">>
    /\ vout = [id \in UVals |-> 0]

UnwindInit == UnwindVecInit \/ DequeStart({UnwindCap}, "unwind")

\* items.into_iter().collect::<InplaceVec<T, N>>(); the value returned tells how
\* long the source was and how many elements were taken from it.
VFromIter ==
    /\ vstate = "live" /\ vop = "new"
    /\ \E items \in Sources :
          LET taken == source_taken(UnwindCap, items)
          IN VecDone("from_iter",
                     Outcome(data_from_iter(UnwindCap, items),
                             <<"Collected", Len(items), taken>>, <<>>),
                     taken)

\* retain_mut keeping the values in f, with a predicate that panics on trap and
\* a teardown that panics on bomb.
VRetainUnwindingOf(f, trap, bomb) ==
    /\ vstate = "live" /\ vop = "from_iter"
    /\ VecDone("retain", vec_retain_mut_unwinding(TheVec, f, trap, bomb), 0)

\* The values in the vector, and the failures a call is tried with: none, the
\* predicate panicking on one of the values, or the teardown of one panicking.
Elements == {vbuf[i] : i \in 0..(vlen - 1)}
Faults ==
    {<<Uninit, Uninit>>} \cup {<<x, Uninit>> : x \in Elements} \cup {<<Uninit, x>> : x \in Elements}

VRetainUnwinding ==
    \E f \in SUBSET Elements : \E fault \in Faults :
        VRetainUnwindingOf(f, fault[1], fault[2])

\* dedup_by over buckets of width k, with a teardown that panics on bomb.
VDedupUnwindingOf(k, bomb) ==
    /\ vstate = "live" /\ vop = "from_iter"
    /\ VecDone("dedup_by", vec_dedup_by_unwinding(TheVec, k, bomb), 0)

VDedupUnwinding ==
    \E k \in 1..(UnwindVals + 1) : \E bomb \in {Uninit} \cup Elements : VDedupUnwindingOf(k, bomb)

\* items.into_iter().collect::<InplaceDeque<T, N>>().
DFromIter ==
    /\ Callable({"unwind"}) /\ dop = "new"
    /\ \E items \in Sources :
          LET taken == source_taken(dcap, items)
          IN DDone("from_iter",
                   DOutcome(deque_from_iter(dcap, items),
                            <<"Collected", Len(items), taken>>, <<>>),
                   taken)

\* The Drain is dropped and the teardown of bomb panics.
DDrainDropUnwindingOf(bomb) ==
    /\ dmode = "unwind" /\ drain # NoDrain
    /\ LET o == Drain_drop_unwinding(TheDeque, drain, bomb)
       IN /\ dbuf' = o.d.buf
          /\ dhead' = o.d.head
          /\ dlen' = o.d.len
          /\ dok' = o.d.ok
          /\ dout' = Bump(dout, o.drops)
          /\ dret' = o.ret
    /\ drain' = NoDrain
    /\ dop' = "drain_drop"
    /\ UNCHANGED <<dcap, dnext, dleaked, dorig, dyield, dmode>>
    /\ UNCHANGED <<vvars, hvars, xvars>>

DDrainDropUnwinding == \E bomb \in {Uninit} \cup UVals : DDrainDropUnwindingOf(bomb)

UnwindNext ==
    \/ VFromIter \/ VRetainUnwinding \/ VDedupUnwinding
    \/ DFromIter \/ DPushFront \/ DPushBack
    \/ DDrain \/ DDrainNext \/ DDrainNextBack \/ DDrainDropUnwinding

SpecUnwind == UnwindInit /\ [][UnwindNext]_vars

\* --------------------------------------------------- InplaceHeap: retain
RetainKeys == 1..RetainVals

\* A heap collected from any sequence of keys.
HeapRetainInit ==
    /\ RestIdle
    /\ VecIdle
    /\ DequeIdle
    /\ hcap = RetainCap
    /\ \E m \in 0..RetainCap : \E items \in [1..m -> RetainKeys] :
          /\ hbuf = heap_from_iter(hcap, items).buf
          /\ hlen = heap_from_iter(hcap, items).len
    /\ hbuild = "release"
    /\ hguard = NoGuard
    /\ hpeeked = 0
    /\ hop = <<"from_iter">>
    /\ hret = <<"Unit">>

\* retain keeping the keys in f, with a predicate that panics on the key trap;
\* here the call is recorded with its arguments.
HRetainUnwindingOf(f, trap) ==
    /\ hguard = NoGuard /\ hop = <<"from_iter">>
    /\ hop' = <<"retain", f, trap>>
    /\ LET o == heap_retain_unwinding(TheHeap, f, trap)
       IN hbuf' = o.v.buf /\ hlen' = o.v.len /\ hret' = o.ret
    /\ UNCHANGED <<hcap, hbuild, hguard, hpeeked>>
    /\ UNCHANGED <<vvars, dvars, xvars>>

HRetainUnwinding ==
    \E f \in SUBSET RetainKeys : \E trap \in {Uninit} \cup RetainKeys : HRetainUnwindingOf(f, trap)

HeapRetainNext == HRetainUnwinding

SpecHeapRetain == HeapRetainInit /\ [][HeapRetainNext]_vars

\* ------------------------------------------------- InplaceHeap: a.append(b)
\* Heaps of N = AppendCap collected from every sequence of keys, and heaps of
\* N = BigHeapCap, about half full, collected from runs of equal keys.
SmallHeaps == {heap_from_iter(AppendCap, items) : items \in KeySeqs(AppendCap)}
BigHeaps ==
    {heap_from_iter(BigHeapCap, [i \in 1..n |-> 1 + ((i \div run) % HeapVals)]) :
        <<n, run>> \in ((BigHeapCap \div 2 - 2)..(BigHeapCap \div 2 + 2)) \X (1..3)}

HeapAppendInit ==
    /\ VecIdle /\ DequeIdle /\ HeapIdle /\ EqIdle /\ IterIdle /\ OnceIdle /\ SwapIdle /\ SearchIdle /\ PoolIdle
    /\ \/ app_a \in SmallHeaps /\ app_b \in SmallHeaps
       \/ app_a \in BigHeaps /\ app_b \in BigHeaps
    /\ app_op = "new"
    /\ app_ret = <<"Unit">>

\* a.append(&mut b)
HeapAppend ==
    /\ LET r == heap_append(app_a, app_b)
       IN /\ app_a' = r.v
          /\ app_b' = r.other
          /\ app_ret' = r.ret
    /\ app_op' = "append"
    /\ UNCHANGED <<vvars, dvars, hvars, evars, ivars, ovars, svars, bvars, pvars>>

HeapAppendNext == HeapAppend

SpecHeapAppend == HeapAppendInit /\ [][HeapAppendNext]_vars

\* ------------------------------------------------ InplaceDeque: a.append(b)
\* Two deques of one N in any state of head and len: a holds 1, 2, ... and b
\* holds N + 1, N + 2, ...
DequeAppendInit ==
    /\ VecIdle /\ DequeIdle /\ HeapIdle /\ EqIdle /\ IterIdle /\ OnceIdle /\ SwapIdle /\ SearchIdle /\ PoolIdle
    /\ \E cap \in 1..AppendCap : \E ka, kb \in 0..(cap - 1) : \E la, lb \in 0..cap :
          /\ app_a = Filled(Cycled(deque_new(cap), ka), 1, la)
          /\ app_b = Filled(Cycled(deque_new(cap), kb), cap + 1, cap + lb)
    /\ app_op = "new"
    /\ app_ret = <<"Unit">>

\* a.append(&mut b)
DequeAppend ==
    /\ LET r == deque_append(app_a, app_b)
       IN /\ app_a' = r.d
          /\ app_b' = r.other
          /\ app_ret' = r.ret
    /\ app_op' = "append"
    /\ UNCHANGED <<vvars, dvars, hvars, evars, ivars, ovars, svars, bvars, pvars>>

DequeAppendNext == DequeAppend

SpecDequeAppend == DequeAppendInit /\ [][DequeAppendNext]_vars

\* ------------------------------------------- InplaceDeque: binary searches
\* Ord::cmp on keys.
cmp(a, b) == IF a < b THEN "Less" ELSE IF a = b THEN "Equal" ELSE "Greater"

\* <[T]>::binary_search_by with the comparator |e| e.cmp(x), on the slice s:
\* the loop halves size around base, then compares the element at base.
RECURSIVE binary_search_loop(_, _, _, _)
binary_search_loop(s, x, base, size) ==
    IF size > 1
    THEN LET half == size \div 2
             mid == base + half
         IN binary_search_loop(s, x, IF cmp(s[mid + 1], x) = "Greater" THEN base ELSE mid,
                               size - half)
    ELSE base

slice_binary_search_by(s, x) ==
    IF Len(s) = 0 THEN <<"Err", 0>>
    ELSE LET base == binary_search_loop(s, x, 0, Len(s))
             c == cmp(s[base + 1], x)
         IN IF c = "Equal" THEN <<"Ok", base>>
            ELSE <<"Err", base + (IF c = "Less" THEN 1 ELSE 0)>>

\* <[T]>::partition_point with the predicate |e| e < x: a binary search that
\* never finds Equal.
RECURSIVE partition_point_loop(_, _, _, _)
partition_point_loop(s, x, base, size) ==
    IF size > 1
    THEN LET half == size \div 2
             mid == base + half
         IN partition_point_loop(s, x, IF s[mid + 1] < x THEN mid ELSE base, size - half)
    ELSE base

slice_partition_point(s, x) ==
    IF Len(s) = 0 THEN 0
    ELSE LET base == partition_point_loop(s, x, 0, Len(s))
         IN base + (IF s[base + 1] < x THEN 1 ELSE 0)

\* InplaceDeque::binary_search_by with the comparator |e| e.cmp(x).
deque_binary_search_by_front_only(d, x) == slice_binary_search_by(deque_as_slices(d)[1], x)
deque_binary_search_by(d, x) ==
    LET front == deque_as_slices(d)[1]
        back == deque_as_slices(d)[2]
        cmp_back == IF back = <<>> THEN "None" ELSE cmp(back[1], x)
    IN IF cmp_back = "Equal" THEN <<"Ok", Len(front)>>
       ELSE IF cmp_back = "Less"
       THEN LET r == slice_binary_search_by(back, x) IN <<r[1], r[2] + Len(front)>>
       ELSE slice_binary_search_by(front, x)

\* InplaceDeque::partition_point with the predicate |e| e < x.
deque_partition_point(d, x) ==
    LET front == deque_as_slices(d)[1]
        back == deque_as_slices(d)[2]
    IN IF back # <<>> /\ back[1] < x
       THEN slice_partition_point(back, x) + Len(front)
       ELSE slice_partition_point(front, x)

SearchKeys == 1..SearchVals

\* The sequences of at most n keys in ascending order.
SortedSeqs(n) ==
    UNION { {q \in [1..m -> SearchKeys] : \A i \in 1..(m - 1) : q[i] <= q[i + 1]} : m \in 0..n }

\* A sorted deque in any state of head and len.
SearchInit ==
    /\ VecIdle /\ DequeIdle /\ HeapIdle /\ EqIdle /\ IterIdle /\ OnceIdle /\ SwapIdle /\ AppendIdle /\ PoolIdle
    /\ \E cap \in 1..SearchCap : \E k \in 0..(cap - 1) : \E q \in SortedSeqs(cap) :
          sorted = Pushed(Cycled(deque_new(cap), k), q)
    /\ search_op = <<"new">>
    /\ search_ret = <<"Unit">>

\* binary_search(&x), that is binary_search_by(|e| e.cmp(x))
DBinarySearch ==
    /\ \E x \in 0..(SearchVals + 1) :
          /\ search_op' = <<"binary_search_by", x>>
          /\ search_ret' = deque_binary_search_by(sorted, x)
    /\ UNCHANGED sorted
    /\ UNCHANGED <<vvars, dvars, hvars, evars, ivars, ovars, svars, avars, pvars>>

\* partition_point(|e| e < x)
DPartitionPoint ==
    /\ \E x \in 0..(SearchVals + 1) :
          /\ search_op' = <<"partition_point", x>>
          /\ search_ret' = <<"Index", deque_partition_point(sorted, x)>>
    /\ UNCHANGED sorted
    /\ UNCHANGED <<vvars, dvars, hvars, evars, ivars, ovars, svars, avars, pvars>>

SearchNext == DBinarySearch \/ DPartitionPoint

SpecSearch == SearchInit /\ [][SearchNext]_vars

\* ------------------------------------------ QueueLike for InplaceVec<T, N>
\* push_back is push; pop_front is remove(0).ok().
QueueLike_push_back(c, value) == data_push(c, value)
QueueLike_pop_front(c) ==
    LET o == vec_remove(c, 0)
    IN Outcome(o.v, IF o.ret[1] = "Ok" THEN <<"Some", o.ret[2]>> ELSE <<"None">>, <<>>)

QueueInit ==
    /\ RestIdle
    /\ DequeIdle
    /\ HeapIdle
    /\ vbuf = data_new(QueueCap).buf
    /\ vlen = 0
    /\ vstate = "live"
    /\ vnext = 1
    /\ vop = "new"
    /\ vret = <<"Unit">>
    /\ vout = [id \in 1..QueueVals |-> 0]

QPushBack ==
    /\ vnext <= QueueVals
    /\ LET o == QueueLike_push_back(TheVec, vnext)
       IN VecDone("push_back", o, IF o.ret[1] = "Ok" THEN 1 ELSE 0)

QPopFront == VecDone("pop_front", QueueLike_pop_front(TheVec), 0)

QueueNext == QPushBack \/ QPopFront

\* The caller goes on popping: a loop `while let Some(x) = q.pop_front()`.
SpecQueueFair == QueueInit /\ [][QueueNext]_vars /\ WF_vars(QPopFront)

\* ------------------------------------------------------------- ThreadPool
Exit == 0
PoolRest == UNCHANGED <<vvars, dvars, hvars, evars, ivars, ovars, svars, avars, bvars>>

\* ThreadPool::new(k): k workers, each in thread_main, on one empty channel.
PoolInit ==
    /\ VecIdle /\ DequeIdle /\ HeapIdle /\ EqIdle /\ IterIdle /\ OnceIdle /\ SwapIdle
    /\ AppendIdle /\ SearchIdle
    /\ \E k \in 1..PoolWorkers : pool_workers = 1..k
    /\ pool_queue = <<>>
    /\ pool_pc = "open"
    /\ pool_i = 0
    /\ pool_next = 1
    /\ worker_pc = [w \in pool_workers |-> <<"recv">>]
    /\ pool_runs = [t \in 1..PoolTasks |-> 0]

\* add_task: send(Task::Task(task)).
ThreadPool_add_task ==
    /\ pool_pc = "open" /\ pool_next <= PoolTasks
    /\ pool_queue' = Append(pool_queue, pool_next)
    /\ pool_next' = pool_next + 1
    /\ UNCHANGED <<pool_workers, pool_pc, pool_i, worker_pc, pool_runs>>
    /\ PoolRest

\* join(), or the drop of the pool: join_by_ref takes the workers.
join_by_ref_take ==
    /\ pool_pc = "open"
    /\ pool_pc' = "send"
    /\ pool_i' = 0
    /\ UNCHANGED <<pool_workers, pool_queue, pool_next, worker_pc, pool_runs>>
    /\ PoolRest

\* workers.iter().for_each(|_| self.send(Task::Exit)): one turn of the loop.
join_by_ref_send ==
    /\ pool_pc = "send"
    /\ IF pool_i < Cardinality(pool_workers)
       THEN /\ pool_queue' = Append(pool_queue, Exit)
            /\ pool_i' = pool_i + 1
            /\ UNCHANGED pool_pc
       ELSE /\ pool_pc' = "join"
            /\ pool_i' = 0
            /\ UNCHANGED pool_queue
    /\ UNCHANGED <<pool_workers, pool_next, worker_pc, pool_runs>>
    /\ PoolRest

\* workers.into_iter().try_for_each(|w| w.join()): one turn of the loop; the
\* join of a worker returns when its thread_main has returned.
join_by_ref_join_no_wait ==
    /\ pool_pc = "join"
    /\ IF pool_i < Cardinality(pool_workers)
       THEN pool_i' = pool_i + 1 /\ UNCHANGED pool_pc
       ELSE pool_pc' = "joined" /\ UNCHANGED pool_i
    /\ UNCHANGED <<pool_workers, pool_queue, pool_next, worker_pc, pool_runs>>
    /\ PoolRest
join_by_ref_join ==
    /\ pool_pc = "join"
    /\ IF pool_i < Cardinality(pool_workers)
       THEN /\ worker_pc[pool_i + 1] = <<"exited">>
            /\ pool_i' = pool_i + 1
            /\ UNCHANGED pool_pc
       ELSE pool_pc' = "joined" /\ UNCHANGED pool_i
    /\ UNCHANGED <<pool_workers, pool_queue, pool_next, worker_pc, pool_runs>>
    /\ PoolRest

\* thread_main of worker w: task_receiver.recv() takes the oldest message, and
\* blocks while there is none; Task::Exit => return.
thread_main_recv(w) ==
    /\ worker_pc[w] = <<"recv">>
    /\ pool_queue # <<>>
    /\ pool_queue' = Tail(pool_queue)
    /\ worker_pc' = [worker_pc EXCEPT ![w] = IF Head(pool_queue) = Exit THEN <<"exited">>
                                             ELSE <<"task", Head(pool_queue)>>]
    /\ UNCHANGED <<pool_workers, pool_pc, pool_i, pool_next, pool_runs>>
    /\ PoolRest

\* Task::Task(task) => task(): the task runs to its end and returns.
thread_main_task(w) ==
    /\ worker_pc[w][1] = "task"
    /\ pool_runs' = [pool_runs EXCEPT ![worker_pc[w][2]] = @ + 1]
    /\ worker_pc' = [worker_pc EXCEPT ![w] = <<"recv">>]
    /\ UNCHANGED <<pool_workers, pool_queue, pool_pc, pool_i, pool_next>>
    /\ PoolRest

PoolOwner == ThreadPool_add_task \/ join_by_ref_take \/ join_by_ref_send \/ join_by_ref_join
PoolWorker(w) == thread_main_recv(w) \/ thread_main_task(w)

PoolNext == PoolOwner \/ \E w \in pool_workers : PoolWorker(w)

\* Every thread that can take a step takes one in the end, and every task
\* returns.
SpecPoolFair ==
    /\ PoolInit /\ [][PoolNext]_vars
    /\ WF_vars(join_by_ref_take \/ join_by_ref_send \/ join_by_ref_join)
    /\ \A w \in 1..PoolWorkers : WF_vars(w \in pool_workers /\ PoolWorker(w))

\* ------------------------------------------------- InplaceHeap: properties
\* Every element is >= its children.
IsHeap(data) ==
    \A i \in 0..(data.len - 1) :
        /\ 2 * i + 1 < data.len => data.buf[i] >= data.buf[2 * i + 1]
        /\ 2 * i + 2 < data.len => data.buf[i] >= data.buf[2 * i + 2]

\* Two sequences of keys are the same multiset.
SameKeys(s, t) == \A key \in HVals \cup {Uninit} : Occ(s, key) = Occ(t, key)

\* C11: after any sequence of heap operations every element is >= both of its
\* children that exist, and peek() returns a maximum of the stored elements,
\* None exactly when the heap is empty.
C11_HeapInvariant ==
    /\ hlen <= hcap
    /\ \A i \in 0..(hlen - 1) : hbuf[i] # Uninit
    /\ IsHeap(TheHeap)
    /\ IF hlen = 0 THEN heap_peek(TheHeap) = <<"None">>
       ELSE /\ heap_peek(TheHeap)[1] = "Some"
            /\ \A i \in 0..(hlen - 1) : heap_peek(TheHeap)[2] >= hbuf[i]

\* A guard over a heap of two levels was released after the root was lowered.
C11_Witness ==
    /\ hop = "peek_drop" /\ hret = <<"Unit">> /\ hlen >= 4 /\ hbuf[0] < hpeeked

\* What repeated pop() returns until it returns None, as long as every pop
\* that returns an element reduces len by one.
RECURSIVE pop_all(_)
pop_all(data) ==
    LET o == heap_pop(data)
    IN IF o.ret[1] = "None" \/ o.v.len # data.len - 1 THEN <<>>
       ELSE <<o.ret[2]>> \o pop_all(o.v)

\* C12: repeated pop() returns exactly the elements the heap held, largest
\* first, each pop that returns an element reduces len() by one, and pop()
\* returns None once len() is 0.
C12_PopOrder ==
    [][HPop =>
          LET all == pop_all(TheHeap)
          IN /\ Len(all) = hlen
             /\ SameKeys(all, Slice(hbuf, 0, hlen))
             /\ \A i \in 1..(Len(all) - 1) : all[i] >= all[i + 1]
             /\ IF hlen = 0 THEN hret' = <<"None">> /\ hlen' = 0
                ELSE hret' = <<"Some", all[1]>> /\ hlen' = hlen - 1
             /\ pop_all(TheHeap') = SubSeq(all, 2, Len(all))]_vars

\* A pop from a heap of two levels holding both keys more than once.
C12_Witness ==
    /\ hop = "pop" /\ hret[1] = "Some" /\ hlen >= 4
    /\ \A key \in HVals : Occ(Slice(hbuf, 0, hlen), key) >= 1

\* The length the heap had when the outstanding guard was obtained.
GuardedLen == IF hguard.original_len # 0 THEN hguard.original_len ELSE hlen

\* C13: releasing a peek guard without popping restores len() to what it was
\* before the guard was taken, keeps the elements (the root with its new
\* value), and re-establishes the heap invariant; for every len from 1 to N.
C13_PeekRelease ==
    [][HPeekDrop =>
          /\ hret' = <<"Unit">>
          /\ hlen' = GuardedLen
          /\ SameKeys(Slice(hbuf', 0, GuardedLen), Slice(hbuf, 0, GuardedLen))
          /\ IsHeap(TheHeap')]_vars

\* C14: PeekMut::pop returns the element that was the maximum when the guard was
\* obtained if the root was not changed through the guard, reduces len() by one
\* relative to the length before the guard was taken, and leaves the remaining
\* elements as a heap.
C14_PeekPop ==
    [][HPeekPop =>
          /\ hret'[1] = "Some"
          /\ hbuf[0] = hpeeked => hret'[2] = hpeeked
          /\ hret'[2] = hbuf[0]
          /\ hlen' = GuardedLen - 1
          /\ SameKeys(<<hbuf[0]>> \o Slice(hbuf', 0, GuardedLen - 1),
                      Slice(hbuf, 0, GuardedLen))
          /\ IsHeap(TheHeap')]_vars

\* C15: the first mutable access through a peek guard on a heap with len > 1
\* sets len to 1 and records the original length; until the guard is released
\* or popped only the root is exposed; a forgotten guard leaves a heap of one
\* element; immutable access never changes len.
C15_LeakAmplification ==
    [][/\ HDerefMut =>
             IF hlen > 1
             THEN hlen' = 1 /\ hguard'.original_len = hlen
             ELSE hlen' = hlen /\ hguard' = hguard
       /\ HDeref => hlen' = hlen /\ hbuf' = hbuf /\ hguard' = hguard
       /\ (hguard' # NoGuard /\ hguard'.original_len # 0) => hlen' = 1
       /\ HPeekForget =>
             /\ hlen' = hlen /\ hbuf' = hbuf
             /\ hguard.original_len # 0 => hlen' = 1
             /\ IsHeap(TheHeap')]_vars

\* A guard was forgotten after the root of a full heap was lowered through it.
C15_Witness ==
    /\ hop = "peek_forget" /\ hlen = 1 /\ hcap >= 3
    /\ hbuf[0] < hpeeked /\ hbuf[1] > hbuf[0]

\* ------------------------------------------------ properties of all three
\* A failed InplaceVec::push or insert gave `value` back and changed nothing.
VecRejected ==
    (VPush \/ VInsert) /\ vret'[1] = "Err"
        => /\ vret' = <<"Err", vnext>>
           /\ vout'[vnext] = 0
           /\ vbuf' = vbuf /\ vlen' = vlen

\* A failed InplaceDeque::push_front, push_back or insert did.
DequeRejected ==
    (DPushFront \/ DPushBack \/ DInsert) /\ dret'[1] = "Err"
        => /\ dret' = <<"Err", dnext>>
           /\ dout'[dnext] = 0
           /\ dbuf' = dbuf /\ dhead' = dhead /\ dlen' = dlen /\ dok'

\* A failed InplaceHeap::push did.
HeapRejected ==
    HPush /\ hret'[1] = "Err"
        => /\ Len(hret') = 2 /\ hret'[2] \in HVals
           /\ hbuf' = hbuf /\ hlen' = hlen

\* C16: an insertion-like operation that fails for capacity or bounds
\* (InplaceVec::push and insert, InplaceDeque::push_front, push_back and insert,
\* InplaceHeap::push) hands the rejected value back inside its error result,
\* never destroys it, and leaves the container unchanged.
C16_RejectedHandedBack == [][VecRejected /\ DequeRejected /\ HeapRejected]_vars

\* The step left the vector, respectively the deque, as it was.
VecUnchanged == vbuf' = vbuf /\ vlen' = vlen /\ vout' = vout /\ vstate' = vstate
DequeUnchanged ==
    /\ dbuf' = dbuf /\ dhead' = dhead /\ dlen' = dlen /\ dout' = dout
    /\ drain' = drain /\ dok' /\ dret' # <<"Abort">>

\* InplaceVec::swap_remove and remove with index >= len return Err.
VecOutOfBounds ==
    \A index \in vlen..vec_capacity :
       vstate = "live" /\ (\/ VecDone("swap_remove", vec_swap_remove(TheVec, index), 0)
                           \/ VecDone("remove", vec_remove(TheVec, index), 0))
           => vret' = <<"Err">> /\ VecUnchanged

\* get, remove, swap_remove_front and swap_remove_back with index >= len return
\* None; swap with i or j >= len and rotate_left, rotate_right with n > len
\* return Err.
DequeOutOfBounds ==
    \A index \in dlen..(dlen + 1) :
       /\ Callable({"bounds"})
            /\ (\/ DGetAt(index)
                \/ DDone("remove", deque_remove(TheDeque, index), 0)
                \/ DDone("swap_remove_front", deque_swap_remove_front(TheDeque, index), 0)
                \/ DDone("swap_remove_back", deque_swap_remove_back(TheDeque, index), 0))
            => dret' = <<"None">> /\ DequeUnchanged
       /\ Callable({"bounds"})
            /\ (\/ \E j \in Indices : DSwapAt(index, j) \/ DSwapAt(j, index)
                \/ DDone("rotate_left", deque_rotate_left(TheDeque, dlen + 1), 0)
                \/ DDone("rotate_right", deque_rotate_right(TheDeque, dlen + 1), 0))
            => dret' = <<"Err">> /\ DequeUnchanged

\* drain, range and range_mut with start > end or end > len report a failure.
DequeOutOfRange ==
    \A start \in Indices : \A end \in Indices :
       /\ Callable({"bounds"})
       /\ slice_range(start, end, dlen)[1] = "Err"
       /\ (\/ DDrainRejectedOf(start, end)
           \/ DRangeOf("range", start, end)
           \/ DRangeOf("range_mut", start, end))
       => dret'[1] \in {"Err", "None"} /\ DequeUnchanged

\* C17: an index- or range-based operation called with an out-of-bounds
\* argument reports a failure through its return value and leaves the container
\* unchanged, without aborting and without touching slots outside the live
\* range: None from get, remove, swap_remove_front and swap_remove_back, Err
\* from swap, rotate_left, rotate_right, InplaceVec::swap_remove and
\* InplaceVec::remove, and a failure from InplaceDeque::drain, range and
\* range_mut with end > len or start > end.
C17_OutOfBoundsReported == [][VecOutOfBounds /\ DequeOutOfBounds /\ DequeOutOfRange]_vars

\* ------------------------------------------- properties of unwinding panics
\* The position of value x in the sequence s, Len(s) + 1 if it is not there.
PositionOf(x, s) ==
    IF \E i \in DOMAIN s : s[i] = x THEN CHOOSE i \in DOMAIN s : s[i] = x ELSE Len(s) + 1

\* What is left of the sequence s when retain over f is cut short by the
\* predicate panicking on trap or the teardown panicking on bomb: the first
\* `examined` elements were decided, `kept` of them stay, `rest` was not reached.
RetainCut(s, f, trap, bomb) ==
    LET trapAt == PositionOf(trap, s)
        bombAt == IF bomb \in f THEN Len(s) + 1 ELSE PositionOf(bomb, s)
        examined == IF trapAt <= bombAt THEN trapAt - 1 ELSE bombAt
    IN [panicked |-> trapAt <= Len(s) \/ bombAt <= Len(s),
        kept |-> SelectSeq(SubSeq(s, 1, examined), LAMBDA x : x \in f),
        removed |-> SelectSeq(SubSeq(s, 1, examined), LAMBDA x : x \notin f),
        rest |-> SubSeq(s, examined + 1, Len(s))]

\* C18: when the predicate or an element's teardown panics during retain_mut,
\* the vector then holds the elements already decided kept followed by the
\* elements not yet examined, in their original order; len is the original len
\* minus the number removed so far; each removed element was destroyed once
\* and no element is destroyed twice, lost or duplicated.
C18_RetainUnwind ==
    [][vop' = "retain" /\ vret'[1] = "Panic" =>
         \A f \in SUBSET Elements : \A fault \in Faults :
            VRetainUnwindingOf(f, fault[1], fault[2]) =>
               LET cut == RetainCut(vec_as_slice(TheVec), f, fault[1], fault[2])
               IN /\ cut.panicked
                  /\ Slice(vbuf', 0, vlen') = cut.kept \o cut.rest
                  /\ vlen' = vlen - Len(cut.removed)
                  /\ \A id \in UVals :
                        vout'[id] = Occ(cut.removed, id)]_vars

\* The teardown of the third of four elements panicked after one element was
\* kept and one removed: the fourth moved down by two slots.
C18_Witness ==
    /\ vop = "retain" /\ vret = <<"Panic", "teardown", 3>>
    /\ vlen = 2 /\ vbuf[1] = 4 /\ vout[3] = 1

\* The number of values the step destroyed, by the vector's and by the deque's
\* count of departures.
VecDestroyed == Cardinality({id \in UVals : vout'[id] > vout[id]})
DequeDestroyed == Cardinality({id \in UVals : dout'[id] > dout[id]})

\* The step is a retain or dedup_by, respectively the drop of a Drain, that a
\* panicking teardown cut short.
VecTeardownPanicked ==
    vop' \in {"retain", "dedup_by"} /\ vret'[1] = "Panic" /\ vret'[2] = "teardown"
DrainTeardownPanicked ==
    dmode = "unwind" /\ dop' = "drain_drop" /\ dret' = <<"Panic", "teardown">>

\* The statement of C19 as it was made: no element is destroyed twice and the
\* final len() is the number of elements destroyed.
C19_LenIsDestroyedCount ==
    [][/\ VecTeardownPanicked =>
             /\ \A id \in UVals : vout'[id] <= 1
             /\ vlen' = VecDestroyed
       /\ DrainTeardownPanicked =>
             /\ \A id \in UVals : dout'[id] <= 1
             /\ dlen' = DequeDestroyed]_vars

\* C19: when the teardown of one chosen instance panics during retain,
\* dedup_by or the cleanup of a drain, no element is destroyed twice and the
\* final len() is the len() before the operation minus the number of elements
\* that left the collection: those destroyed, the panicking one included, and
\* those the drain had yielded.
C19_LenIsOriginalLessDestroyed ==
    [][/\ VecTeardownPanicked =>
             /\ \A id \in UVals : vout'[id] <= 1
             /\ vlen' = vlen - VecDestroyed
       /\ DrainTeardownPanicked =>
             /\ \A id \in UVals : dout'[id] <= 1
             /\ dlen' = Len(dorig.seq) - (Len(dyield[1]) + Len(dyield[2])) - DequeDestroyed]_vars

\* dedup_by over four elements met the panicking teardown with an element
\* still unread behind it.
C19_Witness ==
    /\ vop = "dedup_by" /\ vret[1] = "Panic" /\ vret[3] < vnext - 1
    /\ vlen = 3 /\ vnext = 5

\* The first n elements of the sources collected.
FirstOfSource(n) == [i \in 1..n |-> i]

\* C20: collecting a sequence of m elements into an InplaceVec<T, N> or an
\* InplaceDeque<T, N> gives a container that holds the first min(m, N) elements
\* in source order, with len = min(m, N) and, for the deque, head = 0; when
\* m > N no failure is reported and at most N elements are taken from the
\* source.
C20_CollectTruncates ==
    [][/\ VFromIter =>
             LET m == vret'[2]
                 taken == vret'[3]
             IN /\ vret'[1] = "Collected"
                /\ vlen' = Min(m, UnwindCap)
                /\ Slice(vbuf', 0, vlen') = FirstOfSource(Min(m, UnwindCap))
                /\ \A i \in vlen'..(UnwindCap - 1) : vbuf'[i] = Uninit
                /\ taken <= UnwindCap /\ taken = vlen'
       /\ DFromIter =>
             LET m == dret'[2]
                 taken == dret'[3]
             IN /\ dret'[1] = "Collected"
                /\ dlen' = Min(m, dcap)
                /\ dhead' = 0
                /\ Logical' = FirstOfSource(Min(m, dcap))
                /\ taken <= dcap /\ taken = dlen']_vars

\* A source longer than N was collected into a deque.
C20_Witness ==
    /\ dop = "from_iter" /\ dret = <<"Collected", UnwindCap + 1, UnwindCap>>
    /\ dlen = UnwindCap /\ dhead = 0

\* ------------------------------------------------ properties of conversions
\* C21: turning an InplaceDeque into an InplaceVec gives the deque's logical
\* sequence from index 0 on with the same len, whatever head and wrap state;
\* turning an InplaceVec into an InplaceDeque gives the same sequence with
\* head = 0; so both round trips keep the sequence.
C21_Conversions ==
    [][/\ DIntoVec =>
             /\ vlen' = dlen
             /\ Slice(vbuf', 0, vlen') = Logical
             /\ deque_iter(deque_from_vec(Vec(vbuf', vlen'))) = Logical
       /\ VIntoDeque =>
             /\ dlen' = vlen /\ dhead' = 0
             /\ Logical' = vec_as_slice(TheVec)
             /\ vec_as_slice(vec_from_deque(Deque(dcap, dbuf', dhead', dlen', dok')))
                  = vec_as_slice(TheVec)]_vars

\* A deque that wrapped around the end of its buffer was turned into a vector.
C21_Witness ==
    /\ dop = "into_vec" /\ vop = "from_deque"
    /\ dret[2] + dret[3] > dcap /\ dret[3] >= 3 /\ dret[2] + 1 < dcap

\* C22: two deques compare equal exactly when they have the same len and equal
\* elements at every logical position, whatever head and wrap state each has
\* (eq never fails an assertion on the way), and two deques that compare equal
\* feed the hasher the same input.
SamePositions(a, b) ==
    /\ a.len = b.len
    /\ \A i \in 0..(a.len - 1) :
          a.buf[(a.head + i) % a.cap] = b.buf[(b.head + i) % b.cap]

C22_EqIsPositional ==
    [][/\ EqCompare => eqret' = <<"Bool", SamePositions(eqself, eqother)>>
       /\ EqHash => (deque_eq(eqself, eqother) = <<"Bool", TRUE>> => eqret'[2] = eqret'[3])]_vars

\* The three-section branch decides: the fronts and backs agree, the middle does not.
C22_Witness ==
    /\ eqret = <<"Bool", FALSE>>
    /\ eqself.len = EqCap /\ eqother.len = EqCap
    /\ eqself.head = 2 /\ eqother.head = 1
    /\ eqself.buf[2] = eqother.buf[1]
    /\ eqself.buf[1] = eqother.buf[0]
    /\ eqself.buf[0] # eqother.buf[2]

\* C23: for the consuming iterator of a vector, the consuming iterator of a
\* deque and the mutable iterator of a deque, under any interleaving of next()
\* and next_back(): what next() yielded is a prefix of the original sequence in
\* order, what next_back() yielded is a suffix of it from the back, the two never
\* overlap, len() / size_hint() is the number not yet yielded, None comes only
\* when every element has been yielded, and once None has been returned every
\* later call returns None.
Reverse(q) == [k \in 1..Len(q) |-> q[Len(q) + 1 - k]]

YieldedOnce ==
    /\ Len(itfront) + Len(itback) <= Len(itorig)
    /\ itfront = SubSeq(itorig, 1, Len(itfront))
    /\ Reverse(itback) = SubSeq(itorig, Len(itorig) - Len(itback) + 1, Len(itorig))
    /\ iter_len(it) = Len(itorig) - Len(itfront) - Len(itback)
    /\ itret = <<"None">> => Len(itfront) + Len(itback) = Len(itorig)

C23_IteratorsYieldOnce ==
    [][IterNext => /\ YieldedOnce'
                   /\ itfused => itret' = <<"None">>]_vars

\* Both ends of a wrapped deque were taken in turn through IterMut until they met.
C23_Witness ==
    /\ it.kind = "iter_mut"
    /\ Len(itorig) = 4
    /\ it.buf[0] = 3
    /\ itfront = <<1, 2>> /\ itback = <<4, 3>>
    /\ itret = <<"None">>

\* C24: recv() never returns before send(v) has stored the value, what it
\* returns is v, and under every interleaving of the steps of send(v) with the
\* steps of recv() the receiver eventually returns: no wake-up is lost.
OnceSafe ==
    /\ once_ret \in {<<"None">>, <<"Some", once_sent>>}
    /\ once_ret # <<"None">> => once_spc \notin {"lock", "store"}
    /\ once_rpc \in {"drop", "done"} => once_ret = <<"Some", once_sent>>

C24_RecvReturnsSent ==
    /\ []OnceSafe
    /\ <>(once_rpc = "done" /\ once_ret = <<"Some", once_sent>>)

\* The receiver registered and parked before the value was there, and the
\* sender's unpark woke it.
C24_Witness ==
    /\ once_rpc = "done" /\ once_ret = <<"Some", once_sent>>
    /\ once_parks = <<1, 0>>
    /\ once_spc = "done" /\ once_freed

\* C25: once the sender has been dropped, try_recv() with nothing buffered
\* locally returns Err(Disconnected), and recv() returns, a buffered value or
\* Err(Disconnected): it does not block for ever, whether the sender was dropped
\* before the call or while the receiver was waiting.
SwapTryRecvDisconnected ==
    (swap_call = "try_recv" /\ swap_rpc = "idle" /\ swap_gone /\ swap_ret[1] # "Ok")
        => swap_ret = <<"Err", "Disconnected">>

SwapRecvReturned ==
    /\ swap_rpc = "idle"
    /\ swap_ret[1] = "Ok" \/ swap_ret = <<"Err", "Disconnected">>

C25_RecvEndsAfterDisconnect ==
    /\ []SwapTryRecvDisconnected
    /\ (swap_spc = "dropped" /\ swap_call = "recv") ~> SwapRecvReturned

\* What holds of recv(): a call that begins after the sender is gone returns.
SwapRecvAfterDrop ==
    (swap_gone /\ swap_call = "recv") ~> SwapRecvReturned

\* C26: for all src, dst in [0, N) and len with
\* min(|src - dst|, N - |src - dst|) + len <= N, after wrap_copy(src, dst, len) slot
\* (dst + k) mod N holds what slot (src + k) mod N held before, for every
\* k < len, every other slot is unchanged, and no copy leaves the buffer.
C26_WrapCopy ==
    [][DWrapCopy =>
         LET src == dret'[2]
             dst == dret'[3]
             len == dret'[4]
         IN /\ dok'
            /\ \A slot \in 0..(dcap - 1) :
                  IF \E k \in 0..(len - 1) : slot = (dst + k) % dcap
                  THEN \A k \in 0..(len - 1) :
                          slot = (dst + k) % dcap => dbuf'[slot] = dbuf[(src + k) % dcap]
                  ELSE dbuf'[slot] = dbuf[slot]]_vars

\* Source and destination both wrap and the destination starts inside the source.
C26_Witness ==
    /\ dop = "wrap_copy" /\ dcap = WrapCap
    /\ dret = <<"Copied", WrapCap - 2, WrapCap - 1, 3>>
    /\ dbuf[0] = WrapCap /\ dbuf[1] = 1

\* C27: insert(i, v) with i <= len < N leaves old[0..i) ++ [v] ++ old[i..len) and
\* len + 1; remove(i) with i < len returns old[i] and leaves
\* old[0..i) ++ old[i+1..len) and len - 1, for every head and wrap state.
DInsertAt(index) ==
    /\ Callable({"all"}) /\ dnext <= ValBudget
    /\ DDone("insert", deque_insert(TheDeque, index, dnext),
             Accepted(deque_insert(TheDeque, index, dnext)))

DRemoveAt(index) ==
    /\ Callable({"all", "bounds"})
    /\ DDone("remove", deque_remove(TheDeque, index), 0)

C27_InsertRemove ==
    [][\A i \in 0..DequeCap :
         /\ (DInsertAt(i) /\ i <= dlen /\ dlen < dcap) =>
               /\ dret' = <<"Ok">>
               /\ dlen' = dlen + 1
               /\ Logical' = SubSeq(Logical, 1, i) \o <<dnext>> \o SubSeq(Logical, i + 1, dlen)
         /\ (DRemoveAt(i) /\ i < dlen) =>
               /\ dret' = <<"Some", Logical[i + 1]>>
               /\ dlen' = dlen - 1
               /\ Logical' = SubSeq(Logical, 1, i) \o SubSeq(Logical, i + 2, dlen)
               /\ dok']_vars

\* A value was inserted in the middle of a deque that wraps.
C27_Witness ==
    /\ dmode = "all" /\ dop = "insert" /\ dret = <<"Ok">>
    /\ dlen = DequeCap /\ dhead > 0 /\ dok
    /\ Logical[2] = dnext - 1

\* C28: remove(i) and insert(i, v) move only the shorter side.  remove shifts the
\* i elements before i, advancing head, when fewer elements precede i than
\* follow it, and otherwise the len - i - 1 elements after it, leaving head
\* unchanged, so that the length it hands to wrap_copy is at most len / 2;
\* insert moves min(i, len - i) elements.
RemoveMovesShorter(i) ==
    /\ deque_remove_copy_len(TheDeque, i) = Min(i, dlen - i - 1)
    /\ 2 * deque_remove_copy_len(TheDeque, i) <= dlen
    /\ dhead' = IF i < dlen - i - 1 THEN to_physical_index(TheDeque, 1) ELSE dhead

InsertMovesShorter(i) ==
    /\ deque_insert_copy_len(TheDeque, i) = Min(i, dlen - i)
    /\ dhead' = IF dlen - i < i THEN dhead ELSE wrap_sub(TheDeque, dhead, 1)

C28_ShorterSideMoved ==
    [][\A i \in 0..DequeCap :
         /\ (DRemoveAt(i) /\ i < dlen) => RemoveMovesShorter(i)
         /\ (DInsertAt(i) /\ i <= dlen /\ dlen < dcap) => InsertMovesShorter(i)]_vars

\* The half of it that is about insert.
InsertShorterSideMoved ==
    [][\A i \in 0..DequeCap :
         (DInsertAt(i) /\ i <= dlen /\ dlen < dcap) => InsertMovesShorter(i)]_vars

\* C29: rotate_left(n) with n <= len turns the sequence s into s[n..] ++ s[..n]
\* and rotate_right(n) into s[len-n..] ++ s[..len-n], for every head position
\* and fill level; rotate_right(n) after rotate_left(n) restores s; with n > len
\* both return Err and change nothing.
DRotateLeftBy(n) ==
    Callable({"all", "bounds", "rotate"}) /\ DDone("rotate_left", deque_rotate_left(TheDeque, n), 0)

DRotateRightBy(n) ==
    Callable({"all", "bounds", "rotate"}) /\ DDone("rotate_right", deque_rotate_right(TheDeque, n), 0)

Rotated(n) ==
    IF n <= dlen
    THEN /\ dret' = <<"Ok">> /\ dok' /\ dlen' = dlen
    ELSE /\ dret' = <<"Err">> /\ dbuf' = dbuf /\ dhead' = dhead /\ dlen' = dlen /\ dok' = dok

C29_Rotate ==
    [][\A n \in 0..(RotateCap + 1) :
         /\ DRotateLeftBy(n) =>
               /\ Rotated(n)
               /\ n <= dlen =>
                    /\ Logical' = SubSeq(Logical, n + 1, dlen) \o SubSeq(Logical, 1, n)
                    /\ deque_iter(deque_rotate_right(Deque(dcap, dbuf', dhead', dlen', dok'), n).d) = Logical
         /\ DRotateRightBy(n) =>
               /\ Rotated(n)
               /\ n <= dlen =>
                    Logical' = SubSeq(Logical, dlen - n + 1, dlen) \o SubSeq(Logical, 1, dlen - n)]_vars

\* A deque that is not full and wraps was rotated left by two.
C29_Witness ==
    /\ dmode = "rotate" /\ dop = "rotate_left" /\ dret = <<"Ok">>
    /\ dcap = RotateCap /\ dlen = RotateCap - 1 /\ dhead + dlen > dcap
    /\ Logical[1] = 3 /\ Logical[dlen] = 2

\* C30: no debug assertion that guards an internal precondition fails under any
\* sequence of public operations: the assertions of rotate_left_inner,
\* rotate_right_inner, wrap_copy, copy, copy_nonoverlapping and copy_slice (dok),
\* the assertion of wrap_index for every index and offset the operations of the
\* deque hand to it, and the assertion of set_len, also when a peek guard is
\* released or popped on a full heap.
DequeAssertionsHold ==
    /\ dok
    /\ \A index \in 0..dlen :
          /\ wrap_index_accepted(dcap, dhead + index)
          /\ wrap_index_accepted(dcap, dhead - index + dcap)

C30_NoAssertionFails ==
    /\ DequeAssertionsHold
    /\ hret # <<"Panic">>

\* The elements of the drained range, those of them the drain has yielded from
\* either end, and the old deque without the range.
DrainRange == {dorig.seq[i] : i \in (dorig.start + 1)..dorig.end}
DrainYielded == {(dyield[1] \o dyield[2])[j] : j \in 1..Len(dyield[1] \o dyield[2])}
DrainSurvivors == SubSeq(dorig.seq, 1, dorig.start) \o SubSeq(dorig.seq, dorig.end + 1, Len(dorig.seq))

\* C31: when a deque Drain is dropped after yielding only some of its range,
\* from either end, its cleanup destroys every unyielded element of the range
\* exactly once and no yielded element; when the teardown of one of them
\* panics, the other unyielded elements are still destroyed exactly once; in
\* both cases the gap is closed: head and len describe exactly the elements
\* outside the range, in their order.
C31_PartialDrainCleanup ==
    [][DDrainDropUnwinding =>
          /\ \A id \in DrainRange \ DrainYielded : dout'[id] = dout[id] + 1 /\ dout'[id] = 1
          /\ \A id \in DrainYielded : dout'[id] = dout[id] /\ dout'[id] = 1
          /\ \A id \in UVals \ DrainRange : dout'[id] = 0
          /\ dlen' = Len(DrainSurvivors)
          /\ deque_iter(TheDeque') = DrainSurvivors
          /\ dok']_vars

\* A drain of three of five elements of a wrapped deque yielded one from the
\* back, and the teardown of one of the two left panicked when it was dropped.
C31_Witness ==
    /\ dmode = "unwind" /\ dop = "drain_drop" /\ dret = <<"Panic", "teardown">>
    /\ dorig.end - dorig.start = 3 /\ Len(dorig.seq) = 4 /\ dorig.start = 1
    /\ dorig.head + Len(dorig.seq) > dcap
    /\ Len(dyield[1]) = 0 /\ Len(dyield[2]) = 1
    /\ dlen = 1

\* The keys a heap holds, in buffer order.
HeapKeys(data) == [i \in 1..data.len |-> data.buf[i - 1]]

\* C32: a.append(b) on heaps with a.len + b.len <= N returns Ok, leaves b empty
\* and a with the multiset union of both heaps' elements in heap order,
\* whichever of the two was longer and whichever strategy rebuild_tail takes.
C32_HeapAppend ==
    [][HeapAppend /\ app_a.len + app_b.len <= data_capacity(app_a) =>
          /\ app_ret' = <<"Ok">>
          /\ app_b'.len = 0
          /\ app_a'.len = app_a.len + app_b.len
          /\ SameKeys(HeapKeys(app_a'), HeapKeys(app_a) \o HeapKeys(app_b))
          /\ IsHeap(app_a')]_vars

\* A full heap of N = 64 that came from an append, its root the largest key.
C32_Witness ==
    /\ app_op = "append" /\ app_ret = <<"Ok">>
    /\ app_a.len = 64 /\ app_b.len = 0
    /\ app_a.buf[0] = HeapVals /\ app_a.buf[63] = 1

\* The statement of C33: a.append(b) on heaps with a.len + b.len > N returns
\* Err and leaves both heaps exactly as they were.
C33_HeapAppendRejected ==
    [][HeapAppend /\ app_a.len + app_b.len > data_capacity(app_a) =>
          /\ app_ret' = <<"Err">>
          /\ app_a' = app_a
          /\ app_b' = app_b]_vars

\* How many of the first n elements of the heap have the key `key`.
KeysBefore(n, key) == Cardinality({i \in 0..(n - 1) : hbuf[i] = key})

\* C34: InplaceHeap::retain(f) leaves exactly the elements f accepts, as a
\* multiset, in heap order; when f panics at some element, the elements it
\* accepted before, that element and those behind it are what is left, and the
\* guard re-establishes the heap order.
C34_HeapRetain ==
    [][\A f \in SUBSET RetainKeys : \A trap \in {Uninit} \cup RetainKeys :
          HRetainUnwindingOf(f, trap) =>
              LET examined == first_rejected(TheHeap, RetainKeys \ {trap}, 0)
              IN /\ hret' = IF examined = hlen THEN <<"Unit">>
                            ELSE <<"Panic", "predicate", examined>>
                 /\ \A key \in RetainKeys :
                       Occ(HeapKeys(TheHeap'), key) =
                           (IF key \in f THEN KeysBefore(examined, key) ELSE 0)
                             + (KeysBefore(hlen, key) - KeysBefore(examined, key))
                 /\ IsHeap(TheHeap')]_vars

\* The predicate panicked at the fourth of five elements after it had rejected
\* the root, and the three elements left are in heap order with a new root.
C34_Witness ==
    /\ hcap = RetainCap /\ hop[1] = "retain" /\ hret = <<"Panic", "predicate", 3>>
    /\ hlen = 3 /\ hbuf[0] = 2 /\ hbuf[1] = 1 /\ hbuf[2] = 1 /\ hbuf[3] = 1 /\ hbuf[4] = 1

\* C35: a.append(b) on deques with a.len + b.len <= N, in every state of head
\* and wrap of both, puts b's elements in their order behind a's, leaves b
\* empty with head 0 and a's head and a's previous elements as they were; with
\* a.len + b.len > N it returns Err and changes neither deque.
C35_DequeAppend ==
    [][DequeAppend =>
          IF app_a.len + app_b.len <= deque_capacity(app_a)
          THEN /\ app_ret' = <<"Ok">>
               /\ deque_iter(app_a') = deque_iter(app_a) \o deque_iter(app_b)
               /\ app_a'.len = app_a.len + app_b.len
               /\ app_a'.head = app_a.head
               /\ \A i \in 0..(app_a.len - 1) :
                     app_a'.buf[to_physical_index(app_a, i)] = app_a.buf[to_physical_index(app_a, i)]
               /\ app_b'.len = 0 /\ app_b'.head = 0
               /\ app_a'.ok
          ELSE /\ app_ret' = <<"Err">>
               /\ app_a' = app_a
               /\ app_b' = app_b]_vars

\* Two wrapped-around elements of b were appended to a at head 2 with two
\* elements, and wrapped again.
C35_Witness ==
    /\ app_op = "append" /\ app_ret = <<"Ok">>
    /\ app_a.head = 2 /\ app_a.len = 4
    /\ app_a.buf[2] = 1 /\ app_a.buf[3] = 2 /\ app_a.buf[0] = 5 /\ app_a.buf[1] = 6
    /\ app_b.buf[3] = 5 /\ app_b.buf[0] = 6 /\ app_b.len = 0 /\ app_b.head = 0

\* How many elements of the sorted deque are below x.
Below(x) == Cardinality({i \in 1..sorted.len : deque_iter(sorted)[i] < x})

\* C36: on a sorted deque in any physical layout, binary_search_by returns
\* Ok(i) with the comparator Equal at index i when some element compares Equal,
\* and otherwise Err(i) with i the insertion point; partition_point(pred)
\* returns the number of leading elements that satisfy pred.
C36_Searches ==
    /\ search_op[1] = "binary_search_by" =>
          IF \E i \in 1..sorted.len : deque_iter(sorted)[i] = search_op[2]
          THEN /\ search_ret[1] = "Ok"
               /\ search_ret[2] < sorted.len
               /\ deque_get(sorted, search_ret[2]) = <<"Some", search_op[2]>>
          ELSE search_ret = <<"Err", Below(search_op[2])>>
    /\ search_op[1] = "partition_point" => search_ret = <<"Index", Below(search_op[2])>>

\* A search in a deque whose four elements wrap around found its key in the
\* second slice.
C36_Witness ==
    /\ search_op = <<"binary_search_by", 3>> /\ search_ret = <<"Ok", 3>>
    /\ sorted.len = 4 /\ sorted.head = 2 /\ Cardinality(DOMAIN sorted.buf) = 4
    /\ deque_iter(sorted) = <<1, 2, 2, 3>>

\* The step left buf, head and len of the deque as they were.
DequeFrameKept == dbuf' = dbuf /\ dhead' = dhead /\ dlen' = dlen

\* C37: push_back and pop_back leave head unchanged, push_front moves head to
\* (head - 1) mod N and pop_front to (head + 1) mod N; each of them that
\* succeeds changes len by exactly one and writes, respectively reads, exactly
\* one slot, every other slot staying as it was; a rejected push and a pop on
\* an empty deque change nothing.
C37_PushPopFrame ==
    [][/\ DPushBack =>
             IF dlen < dcap
             THEN /\ dret' = <<"Ok">> /\ dhead' = dhead /\ dlen' = dlen + 1
                  /\ dbuf' = [dbuf EXCEPT ![(dhead + dlen) % dcap] = dnext]
             ELSE dret'[1] = "Err" /\ DequeFrameKept
       /\ DPushFront =>
             IF dlen < dcap
             THEN /\ dret' = <<"Ok">> /\ dhead' = (dhead + dcap - 1) % dcap /\ dlen' = dlen + 1
                  /\ dbuf' = [dbuf EXCEPT ![(dhead + dcap - 1) % dcap] = dnext]
             ELSE dret'[1] = "Err" /\ DequeFrameKept
       /\ DPopFront =>
             IF dlen > 0
             THEN /\ dret' = <<"Some", dbuf[dhead]>> /\ dhead' = (dhead + 1) % dcap
                  /\ dlen' = dlen - 1 /\ dbuf' = dbuf
             ELSE dret' = <<"None">> /\ DequeFrameKept
       /\ DPopBack =>
             IF dlen > 0
             THEN /\ dret' = <<"Some", dbuf[(dhead + dlen - 1) % dcap]>> /\ dhead' = dhead
                  /\ dlen' = dlen - 1 /\ dbuf' = dbuf
             ELSE dret' = <<"None">> /\ DequeFrameKept]_vars

\* push_front on a deque at head 0 moved head to N - 1.
C37_Witness ==
    /\ dmode = "front_back" /\ dop = "push_front" /\ dret = <<"Ok">>
    /\ dhead = dcap - 1 /\ dlen = 2 /\ dcap = 6

\* The statement of C38: through QueueLike an InplaceVec is a bounded FIFO
\* queue: a pop_front on a queue that is not empty returns its oldest element
\* and reduces len by one, one on an empty queue returns None; and a caller
\* that goes on popping gets the values pushed, in push order, and then None.
C38_QueueFifo ==
    /\ [][QPopFront =>
             IF vlen > 0
             THEN /\ vret' = <<"Some", vbuf[0]>>
                  /\ vlen' = vlen - 1
                  /\ Slice(vbuf', 0, vlen') = Tail(Slice(vbuf, 0, vlen))
             ELSE vret' = <<"None">>]_vars
    /\ \A id \in 1..QueueVals : [](vout[id] <= 1)
    /\ <>(vop = "pop_front" /\ vret = <<"None">>)

\* The messages in the channel from the first Exit on.
RECURSIVE FromFirstExit(_)
FromFirstExit(q) == IF q = <<>> \/ Head(q) = Exit THEN q ELSE FromFirstExit(Tail(q))

\* The Exit markers sent so far.
ExitsSent ==
    IF pool_pc = "open" THEN 0
    ELSE IF pool_pc = "send" THEN pool_i ELSE Cardinality(pool_workers)

C40_DisconnectedOnlyWhenDelivered ==
    swap_ret = <<"Err", "Disconnected">> => swap_inner = <<>> /\ swap_local = <<>>

====
